---- MODULE Spec2Model ----
(***************************************************************************)
(* The click-accounting pipeline of the URL shortener:                     *)
(*   redirect handler -> click_outbox -> relay worker -> Kafka topic       *)
(*   -> click consumer -> (click_processed_events, links.clicks,           *)
(*   clicks_daily).                                                        *)
(*                                                                         *)
(* Time.  `now` is the wall clock in ticks; it saturates at MaxTime.       *)
(* The two deadlines of an outbox row, next_attempt_at and                 *)
(* processing_expires_at, are kept as the distance to the clock            *)
(* (deadline - now, floored at 0), so "deadline <= now" reads "= 0" and    *)
(* the rows stay finite while time keeps running.  All processes read one  *)
(* clock.                                                                  *)
(***************************************************************************)
EXTENDS Integers, Sequences, FiniteSets, TLC

\* ------------------------------------------------------------------ bounds
MaxClicks == 2        \* redirect requests, hence outbox rows, per behaviour
MaxTime == 2          \* last distinct clock value
MaxAttempts == 1      \* cap on the attempts column (failed publishes per row)
MaxLog == 3           \* broker messages per behaviour
MaxFaults == 1        \* injected faults (crashes, store errors, outages)
MaxCalls == 3         \* links API calls per behaviour
MaxKeyLen == 2        \* characters of an API key or of an X-API-Key header
ClaimLease == 1       \* cfg.claimLease, in ticks
RetryBase == 1        \* cfg.retryBase, in ticks
RetryMax == 2         \* cfg.retryMax, in ticks
BatchSize == 2        \* cfg.batchSize
NumPartitions == 2    \* partitions of the click topic
TicksPerDay == 2      \* clock ticks in one UTC day
QueueSize == 1        \* opts.QueueSize of the buffered stats repository
MaxBatchEvents == 2   \* opts.MaxBatchEvents of the buffered stats repository
maxFailures == 2      \* NewCircuitBreaker's maxFailures
openTimeout == 1      \* NewCircuitBreaker's openTimeout, in ticks

\* ---------------------------------------------------------------- universe
Slugs == {"abc", "wxyz"}
Partitions == 0 .. (NumPartitions - 1)
NoTime == 0 - 1       \* SQL NULL of a timestamp column
NoOwner == "null"     \* SQL NULL of processing_owner

\* Sequences over S of length at most n.
SeqsUpTo(S, n) == UNION { [1 .. k -> S] : k \in 0 .. n }

Min(a, b) == IF a <= b THEN a ELSE b
Max(a, b) == IF a >= b THEN a ELSE b

VARIABLES
    now,        \* wall clock
    faults,     \* faults injected so far
    opts,       \* LinksHandlerOptions and cfg.Shortener.RedirectStatus
    gate,       \* cfg.Security.APIKeys and the X-API-Key header seen last
    links,      \* links table: slug -> [present, expiresAt, clicks]
    reqs,       \* HTTP GET /{slug} requests, by request number
    create,     \* the CreateLink call in progress, if any
    reply,      \* what the last links API call returned
    deleted,    \* history: slugs deleted and not inserted since
    outbox,     \* click_outbox table: sequence of rows, id = index
    workers,    \* relay worker processes: worker id -> local state
    brokerUp,   \* the Kafka brokers are reachable
    topic,      \* the click topic: partition -> sequence of messages
    consumer,   \* click consumer process: reader positions and current message
    aggUp,      \* the aggregate store accepts transactions
    processed,  \* click_processed_events: set of event ids
    daily,      \* clicks_daily: <<slug, day>> -> count
    cfg,        \* the relay worker's configuration: retry base and cap
    loop,       \* the relay worker's poll loop with its shutdown context
    buffered,   \* BufferedClickStatsRepository: channel, batch and counters
    cb,         \* the CircuitBreaker of the HTTP client
    calls,      \* attemptRequestWithRetry calls: caller -> local state
    find,       \* the FindActiveBySlugAndIncClick call in progress, or its result
    txs,        \* open transactions of Process, one per consumer instance
    effects     \* history: event id -> counter increments committed for it

vars == <<now, faults, opts, gate, links, reqs, create, reply, deleted, outbox,
          workers, cfg, loop, brokerUp, topic,
          consumer, aggUp, processed, daily, txs, find, effects,
          buffered, cb, calls>>

\* The parts of the state each component leaves alone.
crudVars == <<create, reply, deleted>>
apiVars == <<opts, gate, reqs, crudVars>>
linkVars == <<links>>
relayVars == <<workers, cfg, loop>>
libVars == <<buffered, cb, calls>>
brokerVars == <<brokerUp, topic>>
consumerVars == <<consumer, aggUp, processed, daily, txs, find, effects>>

Faulty == faults < MaxFaults

\* ------------------------------------------------------------ outbox table

\* unnamed/part_001:1-17 with outbox_repository.go:45-62.  The id is the
\* row's index (gen_random_uuid() is fresh); req is the request that made
\* the call (history only, 0 when the caller is not a modelled request).
EnqueueClickOutbox(slug, occurredAt, req) ==
    [ slug |-> slug,
      occurredAt |-> occurredAt,
      status |-> "pending",
      attempts |-> 0,
      nextAttemptIn |-> 0,
      createdAt |-> now,
      owner |-> NoOwner,
      leaseIn |-> NoTime,
      sentAt |-> NoTime,
      req |-> req ]

EventIds == 1 .. Len(outbox)

\* WHERE clause of ClaimNextOutboxEvent.
ClaimableLeaseIgnored(id) ==
    \/ outbox[id].status = "pending" /\ outbox[id].nextAttemptIn = 0
    \/ outbox[id].status = "processing"

ClaimablePendingOnly(id) ==
    outbox[id].status = "pending" /\ outbox[id].nextAttemptIn = 0

ClaimableSentToo(id) ==
    \/ outbox[id].status = "sent"
    \/ outbox[id].status = "pending" /\ outbox[id].nextAttemptIn = 0
    \/ outbox[id].status = "processing" /\ outbox[id].leaseIn = 0

Claimable(id) ==
    \/ outbox[id].status = "pending" /\ outbox[id].nextAttemptIn = 0
    \/ outbox[id].status = "processing" /\ outbox[id].leaseIn = 0

\* ORDER BY created_at ASC LIMIT 1: any claimable row of least created_at
\* (rows of equal created_at come in no defined order).  `held` are the rows
\* this ClaimPending call has already taken: their new deadline is the
\* call's own now + lease > now, so the call's later queries skip them.
ClaimCandidatesAnyOrder(held) ==
    { id \in EventIds \ held : Claimable(id) }

ClaimCandidates(held) ==
    { id \in EventIds \ held :
        /\ Claimable(id)
        /\ \A other \in EventIds \ held :
              Claimable(other) => outbox[id].createdAt <= outbox[other].createdAt }

\* UPDATE ... SET of ClaimNextOutboxEvent.
ClaimRow(row, w) ==
    [row EXCEPT !.status = "processing", !.owner = w, !.leaseIn = ClaimLease]

\* WHERE clause of MarkOutboxSent and MarkOutboxRetry.
OwnedByAnyone(id, w) == outbox[id].status = "processing"

OwnedBy(id, w) ==
    /\ outbox[id].status = "processing"
    /\ outbox[id].owner = w

SentRowKeepsOwner(row) == [row EXCEPT !.status = "sent", !.sentAt = now]

\* UPDATE ... SET of MarkOutboxSent.
SentRow(row) ==
    [row EXCEPT !.status = "sent", !.sentAt = now,
                !.owner = NoOwner, !.leaseIn = NoTime]

\* UPDATE ... SET of MarkOutboxRetry.
RetryRow(row, delay) ==
    [row EXCEPT !.status = "pending", !.nextAttemptIn = delay,
                !.attempts = row.attempts + 1,
                !.owner = NoOwner, !.leaseIn = NoTime]

\* ------------------------------------------------------------- link store

NoLocation == <<>>

\* The links row CreateLink would insert for a slug.
LinkRow(slug, present, expiresAt) ==
    [ present |-> present,
      url |-> <<"https://example.com", slug>>,
      expiresAt |-> expiresAt,
      clicks |-> 0 ]

\* The link tables the runs start from: slug abc with or without a link
\* that never expires, slug wxyz with a link that expires at 1 or never.
LinkTables ==
    { [s \in Slugs |-> IF s = "abc" THEN LinkRow(s, pr, NoTime)
                                    ELSE LinkRow(s, TRUE, ex)] :
        pr \in BOOLEAN, ex \in {NoTime, 1} }

\* links.Service.Resolve, the expiration test (part_002:87).
ExpiredFromItsInstant(link, at) ==
    link.expiresAt # NoTime /\ at >= link.expiresAt

Expired(link, at) ==
    link.expiresAt # NoTime /\ at > link.expiresAt

\* links.Service.Resolve (part_002:81-92); storeErr is the link store
\* failing the FindBySlug query.
Resolve(slug, storeErr) ==
    IF storeErr THEN "error"
    ELSE IF ~links[slug].present THEN "notFound"
    ELSE IF Expired(links[slug], now) THEN "expired"
    ELSE "ok"

\* ------------------------------------------------------------ redirect API

\* ClickOutboxRepository.EnqueueClick (outbox_repository.go:45-62): one
\* INSERT into click_outbox, nothing else is consulted.
EnqueueClickNeedsBroker(slug, occurredAt, req) ==
    IF brokerUp
      THEN Append(outbox, EnqueueClickOutbox(slug, occurredAt, req))
      ELSE outbox

EnqueueClick(slug, occurredAt, req) ==
    Append(outbox, EnqueueClickOutbox(slug, occurredAt, req))

\* links.Service.RecordClick: the click goes to the outbox with the
\* service's clock as occurredAt.
RecordClick(slug, req) == EnqueueClick(slug, now, req)

ReqIds == 1 .. Len(reqs)

\* The request as the handler leaves it.  at, present, expiresAt, storeErr
\* and outage record what the handler met (history).
Request(slug, status, location, click, storeErr) ==
    [ slug |-> slug,
      status |-> status,
      location |-> location,
      click |-> click,
      at |-> now,
      present |-> links[slug].present,
      expiresAt |-> links[slug].expiresAt,
      storeErr |-> storeErr,
      outage |-> ~brokerUp \/ ~aggUp ]

\* LinksHandler.Redirect (part_004:281-316) for a slug that does not
\* resolve: 404, 410 or 500, and the handler returns.
RedirectRefused(slug, storeErr) ==
    /\ Len(reqs) < MaxClicks
    /\ storeErr => Faulty
    /\ Resolve(slug, storeErr) # "ok"
    /\ LET res == Resolve(slug, storeErr)
           status == IF res = "notFound" THEN 404
                     ELSE IF res = "expired" THEN 410
                     ELSE 500
       IN  reqs' = Append(reqs, Request(slug, status, NoLocation, "none", storeErr))
    /\ faults' = IF storeErr THEN faults + 1 ELSE faults
    /\ UNCHANGED <<now, libVars, opts, gate, crudVars, linkVars, outbox, relayVars, brokerVars, consumerVars>>

\* LinksHandler.Redirect for a slug that resolves, click recording in a
\* goroutine (asyncClick): the goroutine is started and the 3xx is written.
RedirectAsync(slug) ==
    /\ Len(reqs) < MaxClicks
    /\ opts.asyncClick
    /\ Resolve(slug, FALSE) = "ok"
    /\ reqs' = Append(reqs, Request(slug, opts.redirectStatus,
                                    links[slug].url, "spawned", FALSE))
    /\ UNCHANGED <<now, libVars, faults, opts, gate, crudVars, linkVars, outbox, relayVars, brokerVars,
                   consumerVars>>

\* A redirect that bumps the link's counter itself, as a hot path built on
\* FindActiveBySlugAndIncClick would.
RedirectSyncCounting(slug, appendErr) ==
    /\ Len(reqs) < MaxClicks
    /\ ~opts.asyncClick
    /\ appendErr => Faulty
    /\ Resolve(slug, FALSE) = "ok"
    /\ reqs' = Append(reqs, Request(slug, opts.redirectStatus, links[slug].url,
                                    IF appendErr THEN "failed" ELSE "ok", FALSE))
    /\ outbox' = IF appendErr THEN outbox ELSE RecordClick(slug, Len(reqs) + 1)
    /\ links' = [links EXCEPT ![slug].clicks = @ + 1]
    /\ faults' = IF appendErr THEN faults + 1 ELSE faults
    /\ UNCHANGED <<now, libVars, opts, gate, crudVars, relayVars, brokerVars, consumerVars>>

\* LinksHandler.Redirect for a slug that resolves, click recording inline:
\* RecordClick is called, its error is dropped (`_ =`), the 3xx is written.
\* appendErr is the outbox store failing the INSERT.
RedirectSync(slug, appendErr) ==
    /\ Len(reqs) < MaxClicks
    /\ ~opts.asyncClick
    /\ appendErr => Faulty
    /\ Resolve(slug, FALSE) = "ok"
    /\ reqs' = Append(reqs, Request(slug, opts.redirectStatus, links[slug].url,
                                    IF appendErr THEN "failed" ELSE "ok", FALSE))
    /\ outbox' = IF appendErr THEN outbox ELSE RecordClick(slug, Len(reqs) + 1)
    /\ faults' = IF appendErr THEN faults + 1 ELSE faults
    /\ UNCHANGED <<now, libVars, opts, gate, crudVars, linkVars, relayVars, brokerVars, consumerVars>>

\* The goroutine of part_004:298-305 runs RecordClick; on an error (store
\* failure or the click timeout) it logs a warning.
ClickTask(r, appendErr) ==
    /\ reqs[r].click = "spawned"
    /\ appendErr => Faulty
    /\ reqs' = [reqs EXCEPT ![r].click = IF appendErr THEN "failed" ELSE "ok"]
    /\ outbox' = IF appendErr THEN outbox ELSE RecordClick(reqs[r].slug, r)
    /\ faults' = IF appendErr THEN faults + 1 ELSE faults
    /\ UNCHANGED <<now, libVars, opts, gate, crudVars, linkVars, relayVars, brokerVars, consumerVars>>

\* The API process exits: goroutines that have not run are gone.
ApiCrash ==
    /\ Faulty
    /\ \E r \in ReqIds : reqs[r].click = "spawned"
    /\ reqs' = [r \in ReqIds |->
                   IF reqs[r].click = "spawned"
                     THEN [reqs[r] EXCEPT !.click = "lost"]
                     ELSE reqs[r]]
    /\ faults' = faults + 1
    /\ UNCHANGED <<now, libVars, opts, gate, crudVars, linkVars, outbox, relayVars, brokerVars, consumerVars>>

ApiStep ==
    \/ \E slug \in Slugs, storeErr \in BOOLEAN : RedirectRefused(slug, storeErr)
    \/ \E slug \in Slugs : RedirectAsync(slug)
    \/ \E slug \in Slugs, appendErr \in BOOLEAN : RedirectSync(slug, appendErr)
    \/ \E r \in ReqIds, appendErr \in BOOLEAN : ClickTask(r, appendErr)

\* ------------------------------------------------------------ relay worker

RECURSIVE BackoffLoop(_, _, _, _)
backoffDelayUncapped(base, max, attempt) == base * 2 ^ attempt

BackoffLoop(delay, max, i, attempt) ==
    IF i >= attempt
      THEN (IF delay > max THEN max ELSE delay)
      ELSE IF delay * 2 >= max
             THEN max
             ELSE BackoffLoop(delay * 2, max, i + 1, attempt)

backoffDelay(base, max, attempt) == BackoffLoop(base, max, 0, attempt)

\* Bytes of one message, len(Key) + len(Value): the slug is the key and is
\* part of the JSON value.
SlugBytes(slug) == IF slug = "abc" THEN 3 ELSE IF slug = "" THEN 0 ELSE 4
MsgBytes(slug) == 2 * SlugBytes(slug)

ZeroLoad == [p \in Partitions |-> 0]

\* kafka.LeastBytes.Balance: the first partition of least bytes written by
\* this writer; the key plays no part.
LeastBytesBalance(load, slug) ==
    CHOOSE p \in Partitions :
        \A q \in Partitions : load[p] < load[q] \/ (load[p] = load[q] /\ p <= q)

\* The writer's Balancer (&kafka.LeastBytes{}).
Balance(load, slug) == LeastBytesBalance(load, slug)

\* LeastBytes adds the message's bytes to the chosen partition's counter.
\* Only differences between the counters matter to the choice, so the
\* least counter is kept at 0.
AddLoad(load, p, bytes) ==
    LET raw == [load EXCEPT ![p] = @ + bytes]
        least == CHOOSE m \in {raw[q] : q \in Partitions} :
                     \A q \in Partitions : m <= raw[q]
    IN  [q \in Partitions |-> raw[q] - least]

\* cfg.retryBase and cfg.retryMax as loadConfig reads them.
DefaultConfig == [ retryBase |-> RetryBase, retryMax |-> RetryMax ]

IdleWorker ==
    [ pc |-> "idle", batch |-> <<>>, markRes |-> "none", load |-> ZeroLoad ]

WorkerIds == DOMAIN workers

HeldIds(w) == { workers[w].batch[i].id : i \in 1 .. Len(workers[w].batch) }

RECURSIVE TopicSizeOver(_)
TopicSizeOver(ps) ==
    IF ps = {} THEN 0
    ELSE LET p == CHOOSE q \in ps : TRUE
         IN  Len(topic[p]) + TopicSizeOver(ps \ {p})

TopicSize == TopicSizeOver(Partitions)

\* One ClaimNextOutboxEvent query that returns a row; the first one of a
\* processBatch call (main.go:164) takes the worker out of its wait.
ClaimNext(w) ==
    /\ workers[w].pc \in {"idle", "claim"}
    /\ Len(workers[w].batch) < BatchSize
    /\ \E id \in ClaimCandidates(HeldIds(w)) :
          /\ outbox' = [outbox EXCEPT ![id] = ClaimRow(@, w)]
          /\ workers' = [workers EXCEPT
                 ![w].pc = "claim",
                 ![w].markRes = "none",
                 ![w].batch =
                     Append(@, [ id |-> id,
                                 slug |-> outbox[id].slug,
                                 occurredAt |-> outbox[id].occurredAt,
                                 attempts |-> outbox[id].attempts ])]
    /\ UNCHANGED <<now, libVars, cfg, loop, faults, apiVars, linkVars, brokerVars, consumerVars>>

\* ClaimPending returns its rows: the limit is reached or the query found
\* no row (with no row at all processBatch returns 0 and the worker stays
\* in its wait).
ClaimDone(w) ==
    /\ workers[w].pc = "claim"
    /\ \/ Len(workers[w].batch) >= BatchSize
       \/ ClaimCandidates(HeldIds(w)) = {}
    /\ workers' = [workers EXCEPT ![w].pc = "publish"]
    /\ UNCHANGED <<now, libVars, cfg, loop, faults, apiVars, linkVars, outbox, brokerVars, consumerVars>>

\* A ClaimNextOutboxEvent query fails: ClaimPending returns (nil, err) and
\* processBatch returns; the rows claimed so far keep their lease.
ClaimError(w) ==
    /\ Faulty
    /\ workers[w].pc = "claim"
    /\ workers' = [workers EXCEPT ![w].pc = "idle", ![w].batch = <<>>]
    /\ faults' = faults + 1
    /\ UNCHANGED <<now, libVars, cfg, loop, apiVars, linkVars, outbox, brokerVars, consumerVars>>

\* writer.WriteMessages for the head of the batch (main.go:204-211), and the
\* branch processBatch takes on its result.
PublishUnchecked(w) ==
    /\ workers[w].pc = "publish"
    /\ LET ev == Head(workers[w].batch)
           p == Balance(workers[w].load, ev.slug)
       IN  /\ TopicSize < MaxLog
           /\ topic' = IF brokerUp
                          THEN [topic EXCEPT ![p] =
                                   Append(@, [ eventId |-> ev.id,
                                               slug |-> ev.slug,
                                               occurredAt |-> ev.occurredAt,
                                               json |-> TRUE ])]
                          ELSE topic
           /\ workers' = [workers EXCEPT ![w].pc = "markSent"]
    /\ UNCHANGED <<now, libVars, cfg, loop, faults, apiVars, linkVars, outbox, brokerUp, consumerVars>>

Publish(w) ==
    /\ workers[w].pc = "publish"
    /\ LET ev == Head(workers[w].batch)
           p == Balance(workers[w].load, ev.slug)
       IN  IF brokerUp
             THEN /\ TopicSize < MaxLog
                  /\ topic' = [topic EXCEPT ![p] =
                         Append(@, [ eventId |-> ev.id,
                                     slug |-> ev.slug,
                                     occurredAt |-> ev.occurredAt,
                                     json |-> TRUE ])]
                  /\ workers' = [workers EXCEPT
                         ![w].pc = "markSent",
                         ![w].load = AddLoad(@, p, MsgBytes(ev.slug))]
             ELSE /\ ev.attempts < MaxAttempts
                  /\ workers' = [workers EXCEPT ![w].pc = "markRetry"]
                  /\ UNCHANGED topic
    /\ UNCHANGED <<now, libVars, cfg, loop, faults, apiVars, linkVars, outbox, brokerUp, consumerVars>>

\* processBatch goes on to the next event of the batch, or returns.
NextEvent(w, res) ==
    [workers EXCEPT ![w].batch = Tail(@),
                    ![w].markRes = res,
                    ![w].pc = IF Len(workers[w].batch) > 1 THEN "publish" ELSE "idle"]

\* repo.MarkSent (outbox_repository.go:115-132) and what processBatch does
\* with its result (main.go:230-239): on ErrOutboxEventNotOwned, log and go
\* on.
MarkSent(w) ==
    /\ workers[w].pc = "markSent"
    /\ LET ev == Head(workers[w].batch)
       IN  IF OwnedBy(ev.id, w)
             THEN /\ outbox' = [outbox EXCEPT ![ev.id] = SentRow(@)]
                  /\ workers' = NextEvent(w, "ok")
             ELSE /\ workers' = NextEvent(w, "notOwned")
                  /\ UNCHANGED outbox
    /\ UNCHANGED <<now, libVars, cfg, loop, faults, apiVars, linkVars, brokerVars, consumerVars>>

\* repo.MarkRetry (outbox_repository.go:134-159) called from main.go:215-216.
MarkRetry(w) ==
    /\ workers[w].pc = "markRetry"
    /\ LET ev == Head(workers[w].batch)
           delay == backoffDelay(cfg.retryBase, cfg.retryMax, ev.attempts + 1)
       IN  IF OwnedBy(ev.id, w)
             THEN /\ outbox' = [outbox EXCEPT ![ev.id] = RetryRow(@, delay)]
                  /\ workers' = NextEvent(w, "ok")
             ELSE /\ workers' = NextEvent(w, "notOwned")
                  /\ UNCHANGED outbox
    /\ UNCHANGED <<now, libVars, cfg, loop, faults, apiVars, linkVars, brokerVars, consumerVars>>

\* The MarkOutboxSent or MarkOutboxRetry query fails: the row is untouched,
\* processBatch logs the error and goes on.
MarkError(w) ==
    /\ Faulty
    /\ workers[w].pc \in {"markSent", "markRetry"}
    /\ workers' = NextEvent(w, "error")
    /\ faults' = faults + 1
    /\ UNCHANGED <<now, libVars, cfg, loop, apiVars, linkVars, outbox, brokerVars, consumerVars>>

\* The worker process dies and is started again: its batch and its writer
\* are gone, its rows keep their lease.
WorkerCrash(w) ==
    /\ Faulty
    /\ workers[w].pc # "idle"
    /\ workers' = [workers EXCEPT ![w] = IdleWorker]
    /\ faults' = faults + 1
    /\ UNCHANGED <<now, libVars, cfg, loop, apiVars, linkVars, outbox, brokerVars, consumerVars>>

RelayStep(w) ==
    \/ ClaimNext(w)
    \/ ClaimDone(w)
    \/ ClaimError(w)
    \/ Publish(w)
    \/ MarkSent(w)
    \/ MarkRetry(w)
    \/ MarkError(w)

\* ------------------------------------------------- relay worker, poll loop
\* main's for loop (outbox_worker/main.go:124-155) around processBatch
\* (158-243) for one worker, with the context that SIGINT or SIGTERM
\* cancels.  Every call processBatch makes takes that context: once it is
\* cancelled the queries and the broker write return its error.  claimed
\* and sent count the rows ClaimPending returned and the rows marked sent
\* in the current batch (sent is processBatch's `processed`).
LoopWorker == "w1"

IdleLoop ==
    [ pc |-> "top", batch |-> <<>>, claimed |-> 0, sent |-> 0,
      stop |-> FALSE, load |-> ZeroLoad ]

\* signal.NotifyContext: the signal cancels ctx.
Signal ==
    /\ loop.pc # "exited"
    /\ ~loop.stop
    /\ loop' = [loop EXCEPT !.stop = TRUE]
    /\ UNCHANGED <<now, libVars, faults, apiVars, linkVars, outbox, workers, cfg, brokerVars,
                   consumerVars>>

\* The select at the head of the loop (main.go:125-130), then the call of
\* processBatch.
LoopTop ==
    /\ loop.pc = "top"
    /\ loop' = IF loop.stop
                 THEN [loop EXCEPT !.pc = "exited"]
                 ELSE [loop EXCEPT !.pc = "claim", !.batch = <<>>,
                                   !.claimed = 0, !.sent = 0]
    /\ UNCHANGED <<now, libVars, faults, apiVars, linkVars, outbox, workers, cfg, brokerVars,
                   consumerVars>>

\* The wait processBatch's result leads to (main.go:137-154): the ticker of
\* poll_interval when `processed` is 0, idle_wait otherwise.
WaitAfter(claimed, sent) == IF sent = 0 THEN "waitPoll" ELSE "waitIdle"

\* processBatch goes on to the next event of its batch, or returns.
LoopNextEvent(sent) ==
    [loop EXCEPT !.batch = Tail(@),
                 !.sent = sent,
                 !.pc = IF Len(loop.batch) > 1 THEN "publish"
                        ELSE WaitAfter(loop.claimed, sent)]

\* One query of ClaimPending, or its return (outbox_repository.go:84-112).
\* Under a cancelled context the query fails and ClaimPending returns the
\* error without the rows it has taken.
LoopClaim ==
    /\ loop.pc = "claim"
    /\ LET held == { loop.batch[i].id : i \in 1 .. Len(loop.batch) }
           more == Len(loop.batch) < BatchSize /\ ClaimCandidates(held) # {}
       IN  IF loop.stop
             THEN /\ loop' = [loop EXCEPT !.pc = WaitAfter(0, 0), !.batch = <<>>]
                  /\ UNCHANGED outbox
           ELSE IF more
             THEN \E id \in ClaimCandidates(held) :
                     /\ outbox' = [outbox EXCEPT ![id] = ClaimRow(@, LoopWorker)]
                     /\ loop' = [loop EXCEPT
                            !.batch = Append(@, [ id |-> id,
                                                  slug |-> outbox[id].slug,
                                                  occurredAt |-> outbox[id].occurredAt,
                                                  attempts |-> outbox[id].attempts ]),
                            !.claimed = @ + 1]
             ELSE /\ loop' = [loop EXCEPT
                         !.pc = IF loop.batch = <<>>
                                  THEN WaitAfter(0, 0)
                                  ELSE "publish"]
                  /\ UNCHANGED outbox
    /\ UNCHANGED <<now, libVars, faults, apiVars, linkVars, workers, cfg, brokerVars, consumerVars>>

\* writer.WriteMessages for the head of the batch and the branch taken on
\* its result (main.go:204-228).  Under a cancelled context the write
\* fails, and so does the MarkRetry that follows it.
LoopPublish ==
    /\ loop.pc = "publish"
    /\ LET ev == Head(loop.batch)
           p == Balance(loop.load, ev.slug)
       IN  IF loop.stop
             THEN /\ loop' = LoopNextEvent(loop.sent)
                  /\ UNCHANGED topic
           ELSE IF brokerUp
             THEN /\ TopicSize < MaxLog
                  /\ topic' = [topic EXCEPT ![p] =
                         Append(@, [ eventId |-> ev.id,
                                     slug |-> ev.slug,
                                     occurredAt |-> ev.occurredAt,
                                     json |-> TRUE ])]
                  /\ loop' = [loop EXCEPT
                         !.pc = "markSent",
                         !.load = AddLoad(@, p, MsgBytes(ev.slug))]
             ELSE /\ ev.attempts < MaxAttempts
                  /\ loop' = [loop EXCEPT !.pc = "markRetry"]
                  /\ UNCHANGED topic
    /\ UNCHANGED <<now, libVars, faults, apiVars, linkVars, outbox, workers, cfg, brokerUp,
                   consumerVars>>

\* repo.MarkSent (main.go:230-239); `processed++` follows a mark that
\* returned no error.
LoopMarkSent ==
    /\ loop.pc = "markSent"
    /\ LET ev == Head(loop.batch)
       IN  IF ~loop.stop /\ OwnedBy(ev.id, LoopWorker)
             THEN /\ outbox' = [outbox EXCEPT ![ev.id] = SentRow(@)]
                  /\ loop' = LoopNextEvent(loop.sent + 1)
             ELSE /\ loop' = LoopNextEvent(loop.sent)
                  /\ UNCHANGED outbox
    /\ UNCHANGED <<now, libVars, faults, apiVars, linkVars, workers, cfg, brokerVars, consumerVars>>

\* repo.MarkRetry after a failed write (main.go:215-216).
LoopMarkRetry ==
    /\ loop.pc = "markRetry"
    /\ LET ev == Head(loop.batch)
           delay == backoffDelay(cfg.retryBase, cfg.retryMax, ev.attempts + 1)
       IN  IF ~loop.stop /\ OwnedBy(ev.id, LoopWorker)
             THEN /\ outbox' = [outbox EXCEPT ![ev.id] = RetryRow(@, delay)]
                  /\ loop' = LoopNextEvent(loop.sent)
             ELSE /\ loop' = LoopNextEvent(loop.sent)
                  /\ UNCHANGED outbox
    /\ UNCHANGED <<now, libVars, faults, apiVars, linkVars, workers, cfg, brokerVars, consumerVars>>

\* The select that waits (main.go:138-153): ctx.Done ends it with the
\* return of main; otherwise the ticker or the timer fires and the loop
\* goes round.
LoopWake ==
    /\ loop.pc \in {"waitPoll", "waitIdle"}
    /\ loop' = [loop EXCEPT !.pc = IF loop.stop THEN "exited" ELSE "top"]
    /\ UNCHANGED <<now, libVars, faults, apiVars, linkVars, outbox, workers, cfg, brokerVars,
                   consumerVars>>

LoopStep ==
    \/ LoopTop
    \/ LoopClaim
    \/ LoopPublish
    \/ LoopMarkSent
    \/ LoopMarkRetry
    \/ LoopWake

\* ----------------------------------------------------------- click consumer

NoMsg == <<>>

\* The reader of click_consumer/main.go:93-101: pos is the next offset the
\* process fetches, by partition; committed is the group's committed offset
\* at the broker (offsets start at 1, kafka.FirstOffset when nothing is
\* committed); cur is the fetched message as <<partition, offset>>.
IdleConsumer ==
    [ pc |-> "fetch",
      pos |-> [p \in Partitions |-> 1],
      committed |-> [p \in Partitions |-> 1],
      cur |-> NoMsg ]

CurMsg == topic[consumer.cur[1]][consumer.cur[2]]

\* True when no message is left to fetch and none is in hand.
ConsumerDrained ==
    /\ consumer.pc = "fetch"
    /\ \A p \in Partitions : consumer.pos[p] > Len(topic[p])

\* InsertProcessedEventOnce (part_001:71-78): rows inserted by
\* INSERT ... ON CONFLICT (event_id) DO NOTHING.
InsertProcessedEventAlways(id) == 1

InsertProcessedEventNever(id) == 0

InsertProcessedEventOnce(id) == IF id \in processed THEN 0 ELSE 1

\* WHERE clause of GetActiveLinkBySlugAndIncClick (links.sql:23-28).
PresentOnly(link, at) == link.present

ActiveAt(link, at) ==
    /\ link.present
    /\ link.expiresAt = NoTime \/ link.expiresAt >= at

\* dayStartUTC of occurredAt (click_event_processor.go:74).
DayOfProcessing(t) == now \div TicksPerDay

DayOf(t) == t \div TicksPerDay

\* IncDailyClick: INSERT ... ON CONFLICT (slug, day) DO UPDATE count + 1.
DecDailyClick(slug, day) ==
    IF <<slug, day>> \in DOMAIN daily
      THEN [daily EXCEPT ![<<slug, day>>] = @ - 1]
      ELSE daily @@ (<<slug, day>> :> 1)

IncDailyClickOverwrite(slug, day) ==
    IF <<slug, day>> \in DOMAIN daily
      THEN [daily EXCEPT ![<<slug, day>>] = 1]
      ELSE daily @@ (<<slug, day>> :> 1)

IncDailyClick(slug, day) ==
    IF <<slug, day>> \in DOMAIN daily
      THEN [daily EXCEPT ![<<slug, day>>] = @ + 1]
      ELSE daily @@ (<<slug, day>> :> 1)

NoEffect == [ seen |-> 0, daily |-> 0, clicks |-> 0 ]

Effect(id) == IF id \in DOMAIN effects THEN effects[id] ELSE NoEffect

\* History of the transactions run for an event: seen counts the calls of
\* Process that returned without error, daily and clicks the committed
\* increments.
Record(id, incs) ==
    LET e == [ seen |-> Effect(id).seen + 1,
               daily |-> Effect(id).daily + incs,
               clicks |-> Effect(id).clicks + incs ]
    IN  IF id \in DOMAIN effects
          THEN [effects EXCEPT ![id] = e]
          ELSE effects @@ (id :> e)

\* reader.FetchMessage (main.go:120): the next message of some partition.
Fetch ==
    /\ consumer.pc = "fetch"
    /\ brokerUp
    /\ \E p \in Partitions :
          /\ consumer.pos[p] <= Len(topic[p])
          /\ consumer' = [consumer EXCEPT
                 !.pc = "process",
                 !.cur = <<p, consumer.pos[p]>>,
                 !.pos[p] = @ + 1]
    /\ UNCHANGED <<now, libVars, faults, apiVars, linkVars, outbox, relayVars, brokerVars,
                   aggUp, processed, daily, txs, find, effects>>

\* processMessage (main.go:182-203): a payload that is not JSON (json
\* FALSE; the other fields then mean nothing), a blank slug ("") or a blank
\* eventId (0) makes processMessage return nil before Process is called.
PoisonBlankSlugOnly(msg) ==
    \/ ~msg.json
    \/ msg.slug = ""

Poison(msg) ==
    \/ ~msg.json
    \/ msg.slug = ""
    \/ msg.eventId = 0

\* The consume loop after processMessage returned an error (main.go:145-162):
\* sleep, then `continue` to the next FetchMessage, CommitMessages skipped.
OnProcessErrorAck == [consumer EXCEPT !.pc = "commit"]

OnProcessError == [consumer EXCEPT !.pc = "fetch", !.cur = NoMsg]

\* processMessage (main.go:182-236) with ClickEventProcessor.Process
\* (click_event_processor.go:27-96), one transaction.  On an error the loop
\* sleeps and fetches again without committing the offset.
Process ==
    /\ consumer.pc = "process"
    /\ LET msg == CurMsg
           id == msg.eventId
       IN  IF Poison(msg)
             THEN /\ consumer' = [consumer EXCEPT !.pc = "commit"]
                  /\ UNCHANGED <<links, processed, daily, effects>>
           ELSE IF ~aggUp
             THEN /\ consumer' = OnProcessError
                  /\ UNCHANGED <<links, processed, daily, effects>>
             ELSE /\ consumer' = [consumer EXCEPT !.pc = "commit"]
                  /\ IF InsertProcessedEventOnce(id) = 0
                       THEN /\ effects' = Record(id, 0)
                            /\ UNCHANGED <<links, processed, daily>>
                       ELSE /\ processed' = processed \cup {id}
                            /\ IF ActiveAt(links[msg.slug], msg.occurredAt)
                                 THEN /\ links' = [links EXCEPT
                                             ![msg.slug].clicks = @ + 1]
                                      /\ daily' = IncDailyClick(msg.slug,
                                                      DayOf(msg.occurredAt))
                                      /\ effects' = Record(id, 1)
                                 ELSE /\ effects' = Record(id, 0)
                                      /\ UNCHANGED <<links, daily>>
    /\ UNCHANGED <<now, libVars, faults, apiVars, outbox, relayVars, brokerVars, aggUp, txs, find>>

\* reader.CommitMessages (main.go:164): the group's offset of the partition
\* moves past the message; on an error the loop sleeps and fetches again.
Commit ==
    /\ consumer.pc = "commit"
    /\ consumer' = [consumer EXCEPT
           !.pc = "fetch",
           !.cur = NoMsg,
           !.committed = IF brokerUp
                           THEN [@ EXCEPT ![consumer.cur[1]] = consumer.cur[2] + 1]
                           ELSE @]
    /\ UNCHANGED <<now, libVars, faults, apiVars, linkVars, outbox, relayVars, brokerVars,
                   aggUp, processed, daily, txs, find, effects>>

\* The consumer process dies and is started again: it reads on from the
\* committed offsets.
ConsumerCrash ==
    /\ Faulty
    /\ consumer.pc # "fetch" \/ consumer.pos # consumer.committed
    /\ consumer' = [consumer EXCEPT
           !.pc = "fetch", !.cur = NoMsg, !.pos = consumer.committed]
    /\ faults' = faults + 1
    /\ UNCHANGED <<now, libVars, apiVars, linkVars, outbox, relayVars, brokerVars,
                   aggUp, processed, daily, txs, find, effects>>

ConsumerStep ==
    \/ Fetch
    \/ Process
    \/ Commit

\* ClickEventProcessor.Process statement by statement
\* (click_event_processor.go:42-96), for consumer instances that run it
\* side by side.  What a transaction has written stays in its record until
\* it commits; the tables hold committed rows only.  overlap records that
\* the transaction began while another one for the same event was open
\* (history).
IdleTx ==
    [ pc |-> "idle", id |-> 0, slug |-> "", occurredAt |-> 0,
      reg |-> FALSE, link |-> FALSE, day |-> FALSE, res |-> "none", n |-> 0,
      overlap |-> FALSE ]

NoTxs == [c \in {} |-> IdleTx]

Instances == DOMAIN txs

OpenTx(c) == txs[c].pc \in {"insert", "link", "daily", "commit"}

\* Another open transaction has inserted the registry row of id and not
\* ended: the primary key of click_processed_events makes
\* INSERT ... ON CONFLICT DO NOTHING wait for it.
RegistryBusyNever(c, id) == FALSE

RegistryBusy(c, id) ==
    \E d \in Instances \ {c} : OpenTx(d) /\ txs[d].reg /\ txs[d].id = id

\* Another open transaction has updated the link row of slug: the UPDATE
\* waits for its row lock.
LinkBusy(c, slug) ==
    \E d \in Instances \ {c} : OpenTx(d) /\ txs[d].link /\ txs[d].slug = slug

\* pool.BeginTx for one delivery of a message of the topic.
TxBegin(c) ==
    /\ txs[c].pc \in {"idle", "done"}
    /\ txs[c].n < MaxCalls
    /\ aggUp
    /\ \E p \in Partitions : \E i \in 1 .. Len(topic[p]) :
          txs' = [txs EXCEPT ![c] =
                     [ IdleTx EXCEPT !.pc = "insert",
                                     !.id = topic[p][i].eventId,
                                     !.slug = topic[p][i].slug,
                                     !.occurredAt = topic[p][i].occurredAt,
                                     !.n = txs[c].n + 1,
                                     !.overlap =
                                         \E d \in Instances \ {c} :
                                             /\ OpenTx(d)
                                             /\ txs[d].id = topic[p][i].eventId ]]
    /\ UNCHANGED <<now, libVars, faults, apiVars, linkVars, outbox, relayVars, brokerVars,
                   consumer, aggUp, processed, daily, find, effects>>

\* queries.InsertProcessedEventOnce, and the rollback on zero rows.
TxInsert(c) ==
    /\ txs[c].pc = "insert"
    /\ ~RegistryBusy(c, txs[c].id)
    /\ txs' = IF InsertProcessedEventOnce(txs[c].id) = 0
                THEN [txs EXCEPT ![c].pc = "done", ![c].res = "already"]
                ELSE [txs EXCEPT ![c].pc = "link", ![c].reg = TRUE]
    /\ UNCHANGED <<now, libVars, faults, apiVars, linkVars, outbox, relayVars, brokerVars,
                   consumer, aggUp, processed, daily, find, effects>>

\* queries.GetActiveLinkBySlugAndIncClick run on the pool instead of the
\* transaction: the increment is committed by itself.
TxIncLinkAutocommit(c) ==
    /\ txs[c].pc = "link"
    /\ ~LinkBusy(c, txs[c].slug)
    /\ IF ActiveAt(links[txs[c].slug], txs[c].occurredAt)
         THEN /\ links' = [links EXCEPT ![txs[c].slug].clicks = @ + 1]
              /\ txs' = [txs EXCEPT ![c].pc = "daily"]
         ELSE /\ txs' = [txs EXCEPT ![c].pc = "commit"]
              /\ UNCHANGED links
    /\ UNCHANGED <<now, libVars, faults, apiVars, outbox, relayVars, brokerVars,
                   consumer, aggUp, processed, daily, find, effects>>

\* queries.GetActiveLinkBySlugAndIncClick: pgx.ErrNoRows sends Process to
\* the commit without counters.
TxIncLink(c) ==
    /\ txs[c].pc = "link"
    /\ ~LinkBusy(c, txs[c].slug)
    /\ txs' = IF ActiveAt(links[txs[c].slug], txs[c].occurredAt)
                THEN [txs EXCEPT ![c].pc = "daily", ![c].link = TRUE]
                ELSE [txs EXCEPT ![c].pc = "commit"]
    /\ UNCHANGED <<now, libVars, faults, apiVars, linkVars, outbox, relayVars, brokerVars,
                   consumer, aggUp, processed, daily, find, effects>>

\* queries.IncDailyClick.
TxIncDaily(c) ==
    /\ txs[c].pc = "daily"
    /\ txs' = [txs EXCEPT ![c].pc = "commit", ![c].day = TRUE]
    /\ UNCHANGED <<now, libVars, faults, apiVars, linkVars, outbox, relayVars, brokerVars,
                   consumer, aggUp, processed, daily, find, effects>>

\* tx.Commit: everything the transaction wrote becomes visible at once.
TxCommit(c) ==
    /\ txs[c].pc = "commit"
    /\ aggUp
    /\ LET t == txs[c]
       IN  /\ processed' = IF t.reg THEN processed \cup {t.id} ELSE processed
           /\ links' = IF t.link
                         THEN [links EXCEPT ![t.slug].clicks = @ + 1]
                         ELSE links
           /\ daily' = IF t.day
                         THEN IncDailyClick(t.slug, DayOf(t.occurredAt))
                         ELSE daily
           /\ effects' =
                  LET e == [ seen |-> Effect(t.id).seen + (IF t.reg THEN 1 ELSE 0),
                             daily |-> Effect(t.id).daily + (IF t.day THEN 1 ELSE 0),
                             clicks |-> Effect(t.id).clicks + (IF t.link THEN 1 ELSE 0) ]
                  IN  IF t.id \in DOMAIN effects
                        THEN [effects EXCEPT ![t.id] = e]
                        ELSE effects @@ (t.id :> e)
           /\ txs' = [txs EXCEPT ![c].pc = "done",
                                 ![c].res = IF t.link THEN "applied" ELSE "retired"]
    /\ UNCHANGED <<now, libVars, faults, apiVars, outbox, relayVars, brokerVars,
                   consumer, aggUp, find>>

\* A statement or the commit returns an error, or the instance dies: the
\* deferred tx.Rollback, or the closed connection, discards what the
\* transaction wrote.
TxFail(c) ==
    /\ Faulty
    /\ OpenTx(c)
    /\ txs' = [txs EXCEPT ![c].pc = "done", ![c].res = "error"]
    /\ faults' = faults + 1
    /\ UNCHANGED <<now, libVars, apiVars, linkVars, outbox, relayVars, brokerVars,
                   consumer, aggUp, processed, daily, find, effects>>

TxStep(c) ==
    \/ TxBegin(c)
    \/ TxInsert(c)
    \/ TxIncLink(c)
    \/ TxIncDaily(c)
    \/ TxCommit(c)
    \/ TxFail(c)

\* LinksRepository.FindActiveBySlugAndIncClick (fixed_window_limiter.go:
\* 143-163), two statements on the pool: the UPDATE of
\* GetActiveLinkBySlugAndIncClick and, when it returns no row, FindBySlug.
\* first is the row the UPDATE met (history).
IdleFind ==
    [ pc |-> "idle", slug |-> "", at |-> 0, res |-> "none",
      first |-> LinkRow("", FALSE, NoTime),
      link |-> LinkRow("", FALSE, NoTime), n |-> 0 ]

\* The UPDATE ... RETURNING: one statement, the test and the increment at
\* once.
FindInc(slug, at, storeErr) ==
    /\ find.pc \in {"idle", "done"}
    /\ find.n < MaxCalls
    /\ storeErr => Faulty
    /\ LET call == [ IdleFind EXCEPT !.slug = slug, !.at = at,
                                     !.first = links[slug], !.n = find.n + 1 ]
       IN  IF storeErr
             THEN /\ find' = [call EXCEPT !.pc = "done", !.res = "error"]
                  /\ UNCHANGED links
           ELSE IF ActiveAt(links[slug], at)
             THEN /\ links' = [links EXCEPT ![slug].clicks = @ + 1]
                  /\ find' = [call EXCEPT !.pc = "done", !.res = "ok",
                                          !.link = links'[slug]]
             ELSE /\ find' = [call EXCEPT !.pc = "lookup"]
                  /\ UNCHANGED links
    /\ faults' = IF storeErr THEN faults + 1 ELSE faults
    /\ UNCHANGED <<now, libVars, apiVars, outbox, relayVars, brokerVars,
                   consumer, aggUp, processed, daily, txs, effects>>

\* The second lookup after pgx.ErrNoRows: a row means ErrExpired, none
\* ErrNotFound.
FindLookup(storeErr) ==
    /\ find.pc = "lookup"
    /\ storeErr => Faulty
    /\ find' = [find EXCEPT
           !.pc = "done",
           !.res = IF storeErr THEN "error"
                   ELSE IF links[find.slug].present THEN "expired"
                   ELSE "notFound"]
    /\ faults' = IF storeErr THEN faults + 1 ELSE faults
    /\ UNCHANGED <<now, libVars, apiVars, linkVars, outbox, relayVars, brokerVars,
                   consumer, aggUp, processed, daily, txs, effects>>

\* --------------------------------------------------------------- links API

maxAttempts == 10     \* const maxAttempts of CreateLink

\* A string as the sequence of its characters; " " stands for the white
\* space strings.TrimSpace cuts.
Chars == {" ", "k"}

Strings == SeqsUpTo(Chars, MaxKeyLen)

RECURSIVE TrimLeft(_)
TrimLeft(str) ==
    IF str # <<>> /\ Head(str) = " " THEN TrimLeft(Tail(str)) ELSE str

RECURSIVE TrimRight(_)
TrimRight(str) ==
    IF str # <<>> /\ str[Len(str)] = " "
      THEN TrimRight(SubSeq(str, 1, Len(str) - 1))
      ELSE str

TrimSpace(str) == TrimRight(TrimLeft(str))

\* The gate of an API without keys; n counts the requests that came to the
\* gate and header is the X-API-Key header of the last one ("" when the
\* request had none).
NoGate == [ keys |-> <<>>, n |-> 0, header |-> <<>> ]

\* APIKeyMiddleware, the map built from allowedKeys.
AllowedKeys(keys) ==
    { TrimSpace(keys[i]) : i \in 1 .. Len(keys) } \ {<<>>}

\* APIKeyMiddleware: whether next.ServeHTTP is called.
APIKeyPassesUntrimmed(keys, header) ==
    \/ AllowedKeys(keys) = {}
    \/ header # <<>> /\ header \in AllowedKeys(keys)

APIKeyPasses(keys, header) ==
    \/ AllowedKeys(keys) = {}
    \/ LET apiKey == TrimSpace(header)
       IN  apiKey # <<>> /\ apiKey \in AllowedKeys(keys)

\* No CreateLink call is running.
NoCreate == [ active |-> FALSE, expiresAt |-> NoTime, attempts |-> 0 ]

\* What a call returned: n numbers the replies, err is "none" or the error,
\* slug is the slug asked for (of the link made, for a create), attempts the
\* Insert calls a create made, daily the list a stats call returned.
NoReply ==
    [ n |-> 0, op |-> "none", slug |-> "", err |-> "none",
      attempts |-> 0, from |-> 0, to |-> 0, daily |-> <<>> ]

Reply(op, slug, err) ==
    [ NoReply EXCEPT !.n = reply.n + 1, !.op = op, !.slug = slug, !.err = err ]

NoCall ==
    /\ gate = NoGate
    /\ create = NoCreate
    /\ reply = NoReply
    /\ deleted = {}

\* Room for one more call in the behaviour.
CallsLeft == reply.n + (IF create.active THEN 1 ELSE 0) < MaxCalls

\* LinksRepository.Insert: the unique index on slug answers 23505 for a
\* slug that has a row, expired or not; storeErr is any other failure.
InsertErr(slug, storeErr) ==
    IF storeErr THEN "error"
    ELSE IF links[slug].present THEN "slugTaken"
    ELSE "none"

\* The for loop of CreateLink: `for range maxAttempts`.
LoopRuns(attempts) == attempts < maxAttempts

\* The error of Insert after which the loop goes round again.
RetryableAny(err) == err # "none"

Retryable(err) == err = "slugTaken"

\* Service.CreateLink up to the loop: the URL is validated and the link
\* value is built.
CreateBegin(validURL, expiresAt) ==
    /\ CallsLeft
    /\ ~create.active
    /\ IF validURL
         THEN /\ create' = [ active |-> TRUE, expiresAt |-> expiresAt, attempts |-> 0 ]
              /\ UNCHANGED reply
         ELSE /\ reply' = Reply("create", "", "invalidURL")
              /\ UNCHANGED create
    /\ UNCHANGED <<now, libVars, faults, opts, gate, reqs, deleted, linkVars, outbox, relayVars,
                   brokerVars, consumerVars>>

\* One round of the loop: a slug is generated and Insert is called with it.
\* genErr is the slugger failing, storeErr the link store failing.
CreateAttempt(slug, genErr, storeErr) ==
    /\ create.active
    /\ LoopRuns(create.attempts)
    /\ (genErr \/ storeErr) => Faulty
    /\ ~(genErr /\ storeErr)
    /\ IF genErr
         THEN /\ reply' = [ Reply("create", "", "error") EXCEPT
                                !.attempts = create.attempts ]
              /\ create' = NoCreate
              /\ UNCHANGED <<links, deleted>>
         ELSE LET err == InsertErr(slug, storeErr)
              IN  IF err = "none"
                    THEN /\ links' = [links EXCEPT
                                         ![slug] = LinkRow(slug, TRUE, create.expiresAt)]
                         /\ deleted' = deleted \ {slug}
                         /\ reply' = [ Reply("create", slug, "none") EXCEPT
                                           !.attempts = create.attempts + 1 ]
                         /\ create' = NoCreate
                    ELSE IF Retryable(err)
                    THEN /\ create' = [create EXCEPT !.attempts = @ + 1]
                         /\ UNCHANGED <<links, deleted, reply>>
                    ELSE /\ reply' = [ Reply("create", "", err) EXCEPT
                                           !.attempts = create.attempts + 1 ]
                         /\ create' = NoCreate
                         /\ UNCHANGED <<links, deleted>>
    /\ faults' = IF genErr \/ storeErr THEN faults + 1 ELSE faults
    /\ UNCHANGED <<now, libVars, opts, gate, reqs, outbox, relayVars, brokerVars, consumerVars>>

\* The loop is over without an insert: `return nil, ErrSlugTaken`.
CreateExhausted ==
    /\ create.active
    /\ ~LoopRuns(create.attempts)
    /\ reply' = [ Reply("create", "", "slugTaken") EXCEPT
                      !.attempts = create.attempts ]
    /\ create' = NoCreate
    /\ UNCHANGED <<now, libVars, faults, opts, gate, reqs, deleted, linkVars, outbox, relayVars,
                   brokerVars, consumerVars>>

\* LinksRepository.DeleteBySlug: DELETE FROM links WHERE slug = $1, and
\* whether a row went.
DeleteBySlugKeepsRow(slug) ==
    [ wasPresent |-> links[slug].present, links |-> links ]

DeleteBySlug(slug) ==
    [ wasPresent |-> links[slug].present,
      links |-> [links EXCEPT ![slug] = LinkRow(slug, FALSE, NoTime)] ]

\* Service.DeleteLink: a blank slug is not looked up; a slug without a row
\* is ErrNotFound.
DeleteLink(slug, storeErr) ==
    /\ CallsLeft
    /\ storeErr => (Faulty /\ slug # "")
    /\ IF slug = ""
         THEN /\ reply' = Reply("delete", slug, "notFound")
              /\ UNCHANGED <<links, deleted>>
         ELSE IF storeErr
         THEN /\ reply' = Reply("delete", slug, "error")
              /\ UNCHANGED <<links, deleted>>
         ELSE LET res == DeleteBySlug(slug)
              IN  /\ links' = res.links
                  /\ reply' = Reply("delete", slug,
                                    IF res.wasPresent THEN "none" ELSE "notFound")
                  /\ deleted' = IF res.wasPresent THEN deleted \cup {slug}
                                                  ELSE deleted
    /\ faults' = IF storeErr THEN faults + 1 ELSE faults
    /\ UNCHANGED <<now, libVars, opts, gate, reqs, create, outbox, relayVars, brokerVars,
                   consumerVars>>

\* Service.Resolve called for a slug, as Redirect calls it.
ResolveCall(slug, storeErr) ==
    /\ CallsLeft
    /\ storeErr => Faulty
    /\ LET res == Resolve(slug, storeErr)
       IN  reply' = Reply("resolve", slug, IF res = "ok" THEN "none" ELSE res)
    /\ faults' = IF storeErr THEN faults + 1 ELSE faults
    /\ UNCHANGED <<now, libVars, opts, gate, reqs, create, deleted, linkVars, outbox, relayVars,
                   brokerVars, consumerVars>>

\* Service.GetLink: a blank slug is ErrNotFound, else FindBySlug.
GetLink(slug, storeErr) ==
    IF slug = "" THEN "notFound"
    ELSE IF storeErr THEN "error"
    ELSE IF ~links[slug].present THEN "notFound"
    ELSE "none"

\* The days a stats request can name, and the instant time.Parse gives for
\* a day: its midnight in UTC.
Days == 0 .. (DayOf(MaxTime) + 1)

DayStart(day) == day * TicksPerDay

\* GetDailyStatsByRange: the rows of the slug with first <= day <= last,
\* ORDER BY day ASC.
RECURSIVE DailyRows(_, _, _)
DailyRows(slug, day, last) ==
    IF day > last THEN <<>>
    ELSE (IF <<slug, day>> \in DOMAIN daily
            THEN << [ date |-> day, count |-> daily[<<slug, day>>] ] >>
            ELSE <<>>)
         \o DailyRows(slug, day + 1, last)

\* ClickStatsRepository.GetDaily; toDate cuts an instant to its day.
GetDaily(slug, from, to) == DailyRows(slug, DayOf(from), DayOf(to))

\* The loop of GetStats over the days from dateOnly(from) to dateOnly(to):
\* one entry a day, the count of byDate or 0.
FillDaysNoGaps(counts, day, last) == counts

RECURSIVE FillDays(_, _, _)
FillDays(counts, day, last) ==
    IF day > last THEN <<>>
    ELSE LET hits == { i \in 1 .. Len(counts) : counts[i].date = day }
             count == IF hits = {} THEN 0
                      ELSE counts[CHOOSE i \in hits : \A j \in hits : j <= i].count
         IN  << [ date |-> day, count |-> count ] >>
             \o FillDays(counts, day + 1, last)

\* Service.GetStats: GetLink, then the range test, then GetDaily and the
\* gap filling.
GetStats(slug, from, to, storeErr) ==
    IF GetLink(slug, storeErr) # "none"
      THEN [ err |-> GetLink(slug, storeErr), daily |-> <<>> ]
    ELSE IF to < from
      THEN [ err |-> "invalidRange", daily |-> <<>> ]
    ELSE IF ~aggUp
      THEN [ err |-> "error", daily |-> <<>> ]
    ELSE [ err |-> "none",
           daily |-> FillDays(GetDaily(slug, from, to), DayOf(from), DayOf(to)) ]

\* LinksHandler.Stats: from and to are parsed as dates and GetStats is
\* called with them.
StatsCall(slug, fromDay, toDay, storeErr) ==
    /\ CallsLeft
    /\ storeErr => (Faulty /\ slug # "")
    /\ LET res == GetStats(slug, DayStart(fromDay), DayStart(toDay), storeErr)
       IN  reply' = [ Reply("stats", slug, res.err) EXCEPT
                          !.from = fromDay, !.to = toDay, !.daily = res.daily ]
    /\ faults' = IF storeErr THEN faults + 1 ELSE faults
    /\ UNCHANGED <<now, libVars, opts, gate, reqs, create, deleted, linkVars, outbox, relayVars,
                   brokerVars, consumerVars>>

\* POST /api/links: the API-key gate in front of LinksHandler.Create, which
\* calls CreateLink.  A request the gate refuses is answered 401.
GatedCreate(header, validURL, expiresAt) ==
    /\ CallsLeft
    /\ ~create.active
    /\ gate' = [gate EXCEPT !.n = @ + 1, !.header = header]
    /\ IF APIKeyPasses(gate.keys, header)
         THEN IF validURL
                THEN /\ create' = [ active |-> TRUE, expiresAt |-> expiresAt,
                                    attempts |-> 0 ]
                     /\ UNCHANGED reply
                ELSE /\ reply' = Reply("create", "", "invalidURL")
                     /\ UNCHANGED create
         ELSE /\ reply' = Reply("create", "", "unauthorized")
              /\ UNCHANGED create
    /\ UNCHANGED <<now, libVars, faults, opts, reqs, deleted, linkVars, outbox, relayVars,
                   brokerVars, consumerVars>>

CreateStep ==
    \/ \E validURL \in BOOLEAN, expiresAt \in {NoTime, 1} :
          CreateBegin(validURL, expiresAt)
    \/ \E slug \in Slugs, genErr, storeErr \in BOOLEAN :
          CreateAttempt(slug, genErr, storeErr)
    \/ CreateExhausted

\* --------------------------------------------------- buffered click stats
\* BufferedClickStatsRepository (mongo/buffered_stats_repository.go): IncDaily
\* hands the event to a channel of QueueSize places, one goroutine collects
\* the events in `pending` and writes them to the store in batches.  given
\* and late count the events with a slug handed to IncDaily before and after
\* the call of Shutdown.
NoCounts == [k \in {} |-> 0]

IdleBuffered ==
    [ queue |-> <<>>, pending |-> NoCounts, events |-> 0, dropped |-> 0,
      stopped |-> FALSE, pc |-> "run", ret |-> "none",
      given |-> 0, late |-> 0, n |-> 0 ]

RECURSIVE SumCounts(_)
SumCounts(f) ==
    IF DOMAIN f = {} THEN 0
    ELSE LET k == CHOOSE x \in DOMAIN f : TRUE
         IN  f[k] + SumCounts([x \in DOMAIN f \ {k} |-> f[x]])

\* pending[key]++
AddPending(pending, key) ==
    IF key \in DOMAIN pending
      THEN [pending EXCEPT ![key] = @ + 1]
      ELSE pending @@ (key :> 1)

\* The upserts of one BulkWrite: $inc of count by the batch's number.
BulkWrite(pending) ==
    [k \in DOMAIN daily \cup DOMAIN pending |->
        (IF k \in DOMAIN daily THEN daily[k] ELSE 0)
        + (IF k \in DOMAIN pending THEN pending[k] ELSE 0)]

\* IncDaily: a send that does not wait; a full channel counts the event as
\* dropped.
BufIncDaily(slug) ==
    /\ buffered.n < MaxClicks
    /\ LET ev == <<slug, DayOf(now)>>
           b == [buffered EXCEPT !.n = @ + 1]
           c == IF slug = "" THEN b
                ELSE IF buffered.stopped THEN [b EXCEPT !.late = @ + 1]
                ELSE [b EXCEPT !.given = @ + 1]
       IN  buffered' =
              IF slug = "" THEN c
              ELSE IF Len(buffered.queue) < QueueSize
                THEN [c EXCEPT !.queue = Append(@, ev)]
                ELSE [c EXCEPT !.dropped = @ + 1]
    /\ UNCHANGED <<now, faults, apiVars, linkVars, outbox, relayVars, brokerVars,
                   consumerVars, cb, calls>>

\* The closure flush of loop: the error of the write is discarded, the
\* batch is forgotten either way.
Flush(b) == [b EXCEPT !.pending = NoCounts, !.events = 0]

FlushWrite(b) == IF b.events > 0 /\ aggUp THEN BulkWrite(b.pending) ELSE daily

\* One event taken from the channel, in loop's select or in drain.
Received(b) ==
    LET c == [b EXCEPT !.queue = Tail(@),
                       !.pending = AddPending(@, Head(b.queue)),
                       !.events = @ + 1]
    IN  c

BufReceive ==
    /\ buffered.pc \in {"run", "drain"}
    /\ buffered.queue # <<>>
    /\ LET c == Received(buffered)
       IN  IF c.events >= MaxBatchEvents
             THEN /\ daily' = FlushWrite(c)
                  /\ buffered' = Flush(c)
             ELSE /\ buffered' = c
                  /\ UNCHANGED daily
    /\ UNCHANGED <<now, faults, apiVars, linkVars, outbox, relayVars, brokerVars,
                   consumer, aggUp, processed, txs, find, effects, cb, calls>>

\* case <-ticker.C
BufTicker ==
    /\ buffered.pc = "run"
    /\ buffered.events > 0
    /\ daily' = FlushWrite(buffered)
    /\ buffered' = Flush(buffered)
    /\ UNCHANGED <<now, faults, apiVars, linkVars, outbox, relayVars, brokerVars,
                   consumer, aggUp, processed, txs, find, effects, cb, calls>>

\* case <-r.stopCh: drain follows.
BufStop ==
    /\ buffered.pc = "run"
    /\ buffered.stopped
    /\ buffered' = [buffered EXCEPT !.pc = "drain"]
    /\ UNCHANGED <<now, faults, apiVars, linkVars, outbox, relayVars, brokerVars,
                   consumerVars, cb, calls>>

\* drain finds the channel empty: the last flush, and loop returns, which
\* closes doneCh.
BufDone ==
    /\ buffered.pc = "drain"
    /\ buffered.queue = <<>>
    /\ daily' = FlushWrite(buffered)
    /\ buffered' = [Flush(buffered) EXCEPT !.pc = "done"]
    /\ UNCHANGED <<now, faults, apiVars, linkVars, outbox, relayVars, brokerVars,
                   consumer, aggUp, processed, txs, find, effects, cb, calls>>

\* Shutdown closes stopCh, once, and waits.
Shutdown ==
    /\ buffered.ret = "none"
    /\ buffered' = [buffered EXCEPT !.stopped = TRUE, !.ret = "waiting"]
    /\ UNCHANGED <<now, faults, apiVars, linkVars, outbox, relayVars, brokerVars,
                   consumerVars, cb, calls>>

\* Shutdown returns: nil when doneCh is closed, ctx.Err() when its context
\* ends first.
ShutdownReturn ==
    /\ buffered.ret = "waiting"
    /\ buffered' = [buffered EXCEPT
           !.ret = IF buffered.pc = "done" THEN "nil" ELSE "ctx"]
    /\ UNCHANGED <<now, faults, apiVars, linkVars, outbox, relayVars, brokerVars,
                   consumerVars, cb, calls>>

BufferedStep ==
    \/ \E slug \in {"", "abc"} : BufIncDaily(slug)
    \/ BufReceive
    \/ BufTicker
    \/ BufStop
    \/ BufDone
    \/ Shutdown
    \/ ShutdownReturn

\* -------------------------------------------------------- circuit breaker
\* package httpclient (README.md): CircuitBreaker and the retrying Client
\* built on it.  elapsed is time.Since(openSince) in ticks, kept up to the
\* first value past openTimeout.  sinceSuccess is history: the calls of
\* OnFailure since the last call of OnSuccess, kept up to the first value
\* past maxFailures.
maxRetries == 3       \* attemptRequestWithRetry: rounds after the first

Callers == {"r1", "r2", "r3"}

ClosedBreaker ==
    [ state |-> "closed", failures |-> 0, elapsed |-> 0, sinceSuccess |-> 0 ]

IdleCall ==
    [ pc |-> "idle", i |-> 0, bad |-> FALSE, probe |-> FALSE,
      reports |-> 0, ended |-> "none" ]

NoCalls == [c \in Callers |-> IdleCall]

\* CheckBeforeRequest: the error returned and the breaker left behind.
CheckBeforeRequest(b) ==
    IF b.state = "closed"
      THEN [err |-> FALSE, cb |-> b]
    ELSE IF b.state = "open" /\ b.elapsed > openTimeout
      THEN [err |-> FALSE, cb |-> [b EXCEPT !.state = "halfOpen"]]
    ELSE [err |-> TRUE, cb |-> b]

OnSuccess(b) ==
    LET c == [b EXCEPT !.sinceSuccess = 0]
    IN  IF b.state \in {"halfOpen", "closed"}
          THEN [c EXCEPT !.state = "closed", !.failures = 0]
          ELSE c

OnFailureAboveThreshold(b) ==
    LET c == [b EXCEPT !.sinceSuccess = Min(@ + 1, maxFailures + 1)]
    IN  IF b.state = "halfOpen"
          THEN [c EXCEPT !.state = "open", !.elapsed = 0]
        ELSE IF b.state = "closed"
          THEN IF b.failures + 1 > maxFailures
                 THEN [c EXCEPT !.failures = @ + 1, !.state = "open", !.elapsed = 0]
                 ELSE [c EXCEPT !.failures = @ + 1]
        ELSE c

OnFailure(b) ==
    LET c == [b EXCEPT !.sinceSuccess = Min(@ + 1, maxFailures + 1)]
    IN  IF b.state = "halfOpen"
          THEN [c EXCEPT !.state = "open", !.elapsed = 0]
        ELSE IF b.state = "closed"
          THEN IF b.failures + 1 >= maxFailures
                 THEN [c EXCEPT !.failures = @ + 1, !.state = "open", !.elapsed = 0]
                 ELSE [c EXCEPT !.failures = @ + 1]
        ELSE c

\* attemptRequestWithRetry up to its loop: the check of the breaker.  bad
\* says that reqFactory cannot build the request.
Begin(c, bad) ==
    /\ calls[c].pc = "idle"
    /\ LET r == CheckBeforeRequest(cb)
       IN  /\ cb' = r.cb
           /\ calls' = [calls EXCEPT ![c] =
                  IF r.err
                    THEN [IdleCall EXCEPT !.ended = "blocked"]
                    ELSE [IdleCall EXCEPT !.pc = "attempt", !.bad = bad,
                                          !.probe = (cb.state = "open")]]
    /\ UNCHANGED <<now, faults, apiVars, linkVars, outbox, relayVars, brokerVars,
                   consumerVars, buffered>>

\* One round of the loop up to its sleep: reqFactory, client.Do and the
\* branch on the response.  ok says the response came with a status
\* below 500.
Attempt(c, ok) ==
    /\ calls[c].pc = "attempt"
    /\ IF calls[c].bad
         THEN /\ calls' = [calls EXCEPT ![c] =
                     [@ EXCEPT !.pc = "idle", !.ended = "factory"]]
              /\ UNCHANGED cb
       ELSE IF ok
         THEN /\ cb' = OnSuccess(cb)
              /\ calls' = [calls EXCEPT ![c] =
                     [@ EXCEPT !.pc = "idle", !.ended = "ok", !.reports = @ + 1]]
       ELSE IF calls[c].i = maxRetries
         THEN /\ cb' = OnFailure(cb)
              /\ calls' = [calls EXCEPT ![c] =
                     [@ EXCEPT !.pc = "idle", !.ended = "failed", !.reports = @ + 1]]
       ELSE /\ calls' = [calls EXCEPT ![c] = [@ EXCEPT !.pc = "sleep"]]
            /\ UNCHANGED cb
    /\ UNCHANGED <<now, faults, apiVars, linkVars, outbox, relayVars, brokerVars,
                   consumerVars, buffered>>

\* The select of the backoff sleep: the context ends, or the timer fires
\* and the next round begins.
Sleep(c, cancelled) ==
    /\ calls[c].pc = "sleep"
    /\ calls' = [calls EXCEPT ![c] =
           IF cancelled
             THEN [@ EXCEPT !.pc = "idle", !.ended = "ctx"]
             ELSE [@ EXCEPT !.pc = "attempt", !.i = @ + 1]]
    /\ UNCHANGED <<now, faults, apiVars, linkVars, outbox, relayVars, brokerVars,
                   consumerVars, buffered, cb>>

\* Time passes for the open breaker.
Elapse ==
    /\ cb.state = "open"
    /\ cb.elapsed <= openTimeout
    /\ cb' = [cb EXCEPT !.elapsed = @ + 1]
    /\ UNCHANGED <<now, faults, apiVars, linkVars, outbox, relayVars, brokerVars,
                   consumerVars, buffered, calls>>

ClientStep ==
    \/ \E c \in Callers, bad \in BOOLEAN : Begin(c, bad)
    \/ \E c \in Callers, ok \in BOOLEAN : Attempt(c, ok)
    \/ \E c \in Callers, cancelled \in BOOLEAN : Sleep(c, cancelled)
    \/ Elapse

\* ------------------------------------------------------------- environment

\* One tick of the clock: every deadline comes one tick closer.
Tick ==
    /\ now' = Min(now + 1, MaxTime)
    /\ outbox' = [id \in EventIds |->
           [outbox[id] EXCEPT
               !.nextAttemptIn = Max(@ - 1, 0),
               !.leaseIn = IF @ = NoTime THEN NoTime ELSE Max(@ - 1, 0)]]
    /\ \/ now' # now
       \/ outbox' # outbox
    /\ UNCHANGED <<faults, libVars, apiVars, linkVars, relayVars, brokerVars,
                   consumerVars>>

BrokerDown ==
    /\ Faulty
    /\ brokerUp
    /\ brokerUp' = FALSE
    /\ faults' = faults + 1
    /\ UNCHANGED <<now, libVars, apiVars, linkVars, outbox, relayVars, topic, consumerVars>>

BrokerRecover ==
    /\ ~brokerUp
    /\ brokerUp' = TRUE
    /\ UNCHANGED <<now, libVars, faults, apiVars, linkVars, outbox, relayVars, topic, consumerVars>>

AggDown ==
    /\ Faulty
    /\ aggUp
    /\ aggUp' = FALSE
    /\ faults' = faults + 1
    /\ UNCHANGED <<now, libVars, apiVars, linkVars, outbox, relayVars, brokerVars,
                   consumer, processed, daily, txs, find, effects>>

AggRecover ==
    /\ ~aggUp
    /\ aggUp' = TRUE
    /\ UNCHANGED <<now, libVars, faults, apiVars, linkVars, outbox, relayVars, brokerVars,
                   consumer, processed, daily, txs, find, effects>>

\* A redirect's click record reaches the outbox (the request itself is not
\* followed).
ClickOn(slug) ==
    /\ Len(outbox) < MaxClicks
    /\ outbox' = Append(outbox, EnqueueClickOutbox(slug, now, 0))
    /\ UNCHANGED <<now, libVars, faults, apiVars, linkVars, relayVars, brokerVars, consumerVars>>

Click == \E slug \in Slugs : ClickOn(slug)

\* ---------------------------------------------------------- specifications

InitLinks ==
    [s \in Slugs |-> LinkRow(s, TRUE, IF s = "abc" THEN NoTime ELSE 1)]

\* cfg of the API: REDIRECT_ASYNC_CLICK and REDIRECT_STATUS.
HandlerOptions == [ asyncClick : BOOLEAN, redirectStatus : {301, 302} ]

DefaultOptions == [ asyncClick |-> TRUE, redirectStatus |-> 302 ]

\* Everything at rest: clock at 0, no request, no message, no counter.
AtRest ==
    /\ now = 0
    /\ faults = 0
    /\ reqs = <<>>
    /\ NoCall
    /\ topic = [p \in Partitions |-> <<>>]
    /\ consumer = IdleConsumer
    /\ processed = {}
    /\ daily = [k \in {} |-> 0]
    /\ effects = [k \in {} |-> NoEffect]

\* The whole pipeline: API, one relay worker, the consumer.
Init ==
    /\ AtRest
    /\ opts \in { o \in HandlerOptions : o.redirectStatus = 302 }
    /\ links = InitLinks
    /\ outbox = <<>>
    /\ workers = [w \in {"w1"} |-> IdleWorker]
    /\ cfg = DefaultConfig
    /\ txs = NoTxs
    /\ find = IdleFind
    /\ loop = IdleLoop
    /\ buffered = IdleBuffered
    /\ cb = ClosedBreaker
    /\ calls = NoCalls
    /\ brokerUp = TRUE
    /\ aggUp = TRUE

Next ==
    \/ ApiStep
    \/ ApiCrash
    \/ \E w \in WorkerIds : RelayStep(w)
    \/ \E w \in WorkerIds : WorkerCrash(w)
    \/ ConsumerStep
    \/ ConsumerCrash
    \/ Tick
    \/ BrokerDown
    \/ BrokerRecover
    \/ AggDown
    \/ AggRecover

Spec == Init /\ [][Next]_vars

\* The API alone, in front of any link table, with the broker and the
\* aggregate store up or down for the whole run.
ApiInit ==
    /\ AtRest
    /\ opts \in HandlerOptions
    /\ links \in LinkTables
    /\ outbox = <<>>
    /\ workers = [w \in {"w1"} |-> IdleWorker]
    /\ cfg = DefaultConfig
    /\ txs = NoTxs
    /\ find = IdleFind
    /\ loop = IdleLoop
    /\ buffered = IdleBuffered
    /\ cb = ClosedBreaker
    /\ calls = NoCalls
    /\ brokerUp \in BOOLEAN
    /\ aggUp \in BOOLEAN

ApiNext ==
    \/ ApiStep
    \/ ApiCrash
    \/ Tick

ApiSpec == ApiInit /\ [][ApiNext]_vars

\* One relay worker, clicks arriving.
RelayInit ==
    /\ AtRest
    /\ opts = DefaultOptions
    /\ links = InitLinks
    /\ outbox = <<>>
    /\ workers = [w \in {"w1"} |-> IdleWorker]
    /\ cfg = DefaultConfig
    /\ txs = NoTxs
    /\ find = IdleFind
    /\ loop = IdleLoop
    /\ buffered = IdleBuffered
    /\ cb = ClosedBreaker
    /\ calls = NoCalls
    /\ brokerUp = TRUE
    /\ aggUp = TRUE

RelayNext ==
    \/ Click
    \/ \E w \in WorkerIds : RelayStep(w)
    \/ \E w \in WorkerIds : WorkerCrash(w)
    \/ Tick
    \/ BrokerDown
    \/ BrokerRecover

RelaySpec == RelayInit /\ [][RelayNext]_vars

\* One relay worker and the clicks of one link: a click recorded a tick ago
\* waits in the outbox, and more arrive.
QueueInit ==
    /\ now = 1
    /\ faults = 0
    /\ reqs = <<>>
    /\ NoCall
    /\ topic = [p \in Partitions |-> <<>>]
    /\ consumer = IdleConsumer
    /\ processed = {}
    /\ daily = [k \in {} |-> 0]
    /\ effects = [k \in {} |-> NoEffect]
    /\ opts = DefaultOptions
    /\ links = InitLinks
    /\ outbox = << [ EnqueueClickOutbox("abc", 0, 0) EXCEPT !.createdAt = 0 ] >>
    /\ workers = [w \in {"w1"} |-> IdleWorker]
    /\ cfg = DefaultConfig
    /\ txs = NoTxs
    /\ find = IdleFind
    /\ loop = IdleLoop
    /\ buffered = IdleBuffered
    /\ cb = ClosedBreaker
    /\ calls = NoCalls
    /\ brokerUp = TRUE
    /\ aggUp = TRUE

QueueNext ==
    \/ ClickOn("abc")
    \/ \E w \in WorkerIds : RelayStep(w)
    \/ \E w \in WorkerIds : WorkerCrash(w)
    \/ Tick
    \/ BrokerDown
    \/ BrokerRecover

QueueSpec == QueueInit /\ [][QueueNext]_vars

\* The retry delays a worker may be configured with: loadConfig accepts a
\* base above zero and a cap not below the base.
RetryConfigs ==
    { c \in [ retryBase : 1 .. RetryMax, retryMax : 1 .. (2 * RetryMax + 1) ] :
          c.retryMax >= c.retryBase }

\* One relay worker, under any of these configurations, whose write of a
\* claimed click has just failed; the click has failed any number of times
\* before.
BackoffInit ==
    /\ AtRest
    /\ opts = DefaultOptions
    /\ links = InitLinks
    /\ cfg \in RetryConfigs
    /\ txs = NoTxs
    /\ find = IdleFind
    /\ loop = IdleLoop
    /\ buffered = IdleBuffered
    /\ cb = ClosedBreaker
    /\ calls = NoCalls
    /\ \E k \in 0 .. MaxAttempts :
          /\ outbox = << [ ClaimRow(EnqueueClickOutbox("abc", 0, 0), "w1")
                               EXCEPT !.attempts = k ] >>
          /\ workers = [w \in {"w1"} |->
                 [ IdleWorker EXCEPT
                     !.pc = "markRetry",
                     !.batch = << [ id |-> 1, slug |-> "abc",
                                    occurredAt |-> 0, attempts |-> k ] >> ]]
    /\ brokerUp = FALSE
    /\ aggUp = TRUE

BackoffNext ==
    \/ \E w \in WorkerIds : RelayStep(w)
    \/ Tick
    \/ BrokerDown
    \/ BrokerRecover

BackoffSpec == BackoffInit /\ [][BackoffNext]_vars

\* Two relay workers and one click waiting in the outbox.
LeaseInit ==
    /\ AtRest
    /\ opts = DefaultOptions
    /\ links = InitLinks
    /\ \E slug \in Slugs : outbox = << EnqueueClickOutbox(slug, 0, 0) >>
    /\ workers = [w \in {"w1", "w2"} |-> IdleWorker]
    /\ cfg = DefaultConfig
    /\ txs = NoTxs
    /\ find = IdleFind
    /\ loop = IdleLoop
    /\ buffered = IdleBuffered
    /\ cb = ClosedBreaker
    /\ calls = NoCalls
    /\ brokerUp = TRUE
    /\ aggUp = TRUE

LeaseNext ==
    \/ \E w \in WorkerIds : RelayStep(w)
    \/ \E w \in WorkerIds : WorkerCrash(w)
    \/ Tick
    \/ BrokerDown
    \/ BrokerRecover

LeaseSpec == LeaseInit /\ [][LeaseNext]_vars

\* Two relay workers that finish what they hold within its lease: the
\* clock does not run a lease out under a worker that still has the row in
\* its batch.  Leases run out on rows whose worker crashed, lost its batch
\* to a query error or went on after a failed mark.
LeaseWorkers == {"w1", "w2"}

LeaseEndsUnderWorker ==
    \E w \in WorkerIds : \E id \in HeldIds(w) :
        /\ outbox[id].status = "processing"
        /\ outbox[id].owner = w
        /\ outbox[id].leaseIn = 1

TimelyTick == ~LeaseEndsUnderWorker /\ Tick

\* The steps a running worker takes by itself.
Progress(w) ==
    \/ ClaimNext(w)
    \/ ClaimDone(w)
    \/ Publish(w)
    \/ MarkSent(w)
    \/ MarkRetry(w)

FairLeaseNext ==
    \/ \E w \in WorkerIds : RelayStep(w)
    \/ \E w \in WorkerIds : WorkerCrash(w)
    \/ TimelyTick
    \/ BrokerDown
    \/ BrokerRecover

\* The poll loop keeps running in every worker, the clock keeps running, an
\* outage of the broker ends.
FairLeaseSpec ==
    /\ LeaseInit
    /\ [][FairLeaseNext]_vars
    /\ \A w \in LeaseWorkers : WF_vars(Progress(w))
    /\ WF_vars(TimelyTick)
    /\ WF_vars(BrokerRecover)

\* The consumer alone, in front of a topic one relay writer has filled: two
\* sent outbox rows, published MaxLog times at most, in any order and any
\* number of times each.
SentEvent(slug, occurredAt) ==
    [ EnqueueClickOutbox(slug, occurredAt, 0) EXCEPT
        !.status = "sent", !.sentAt = occurredAt, !.createdAt = occurredAt ]

Message(id) ==
    [ eventId |-> id,
      slug |-> outbox[id].slug,
      occurredAt |-> outbox[id].occurredAt,
      json |-> TRUE ]

\* The topic after one writer has published the events ids, in this order.
RECURSIVE PublishAll(_, _, _)
PublishAll(ids, log, load) ==
    IF ids = <<>> THEN log
    ELSE LET msg == Message(Head(ids))
             p == Balance(load, msg.slug)
         IN  PublishAll(Tail(ids),
                        [log EXCEPT ![p] = Append(@, msg)],
                        AddLoad(load, p, MsgBytes(msg.slug)))

\* The topic after one writer has written the messages msgs, in this order.
RECURSIVE Produce(_, _, _)
Produce(msgs, log, load) ==
    IF msgs = <<>> THEN log
    ELSE LET msg == Head(msgs)
             p == Balance(load, msg.slug)
         IN  Produce(Tail(msgs),
                     [log EXCEPT ![p] = Append(@, msg)],
                     AddLoad(load, p, MsgBytes(msg.slug)))

ConsumerInit ==
    /\ now = MaxTime
    /\ faults = 0
    /\ reqs = <<>>
    /\ NoCall
    /\ opts = DefaultOptions
    /\ links \in LinkTables
    /\ outbox \in [1 .. 2 -> { SentEvent(s, t) : s \in Slugs, t \in {1, MaxTime} }]
    /\ \E ids \in SeqsUpTo(EventIds, MaxLog) :
          /\ ids # <<>>
          /\ topic = PublishAll(ids, [p \in Partitions |-> <<>>], ZeroLoad)
    /\ workers = [w \in {"w1"} |-> IdleWorker]
    /\ cfg = DefaultConfig
    /\ txs = NoTxs
    /\ find = IdleFind
    /\ loop = IdleLoop
    /\ buffered = IdleBuffered
    /\ cb = ClosedBreaker
    /\ calls = NoCalls
    /\ brokerUp = TRUE
    /\ aggUp = TRUE
    /\ consumer = IdleConsumer
    /\ processed = {}
    /\ daily = [k \in {} |-> 0]
    /\ effects = [k \in {} |-> NoEffect]

ConsumerNext ==
    \/ ConsumerStep
    \/ ConsumerCrash
    \/ BrokerDown
    \/ BrokerRecover
    \/ AggDown
    \/ AggRecover

ConsumerSpec == ConsumerInit /\ [][ConsumerNext]_vars

\* The consumer in front of two sent events, one of the link abc that never
\* expires and one of abc or of wxyz, which expired at 1, each published once
\* or more.
CountInit ==
    /\ now = MaxTime
    /\ faults = 0
    /\ reqs = <<>>
    /\ NoCall
    /\ opts = DefaultOptions
    /\ links = InitLinks
    /\ \E s \in Slugs, t, u \in {1, MaxTime} :
          outbox = << SentEvent("abc", t), SentEvent(s, u) >>
    /\ \E ids \in SeqsUpTo(EventIds, MaxLog) :
          /\ ids # <<>>
          /\ topic = PublishAll(ids, [p \in Partitions |-> <<>>], ZeroLoad)
    /\ workers = [w \in {"w1"} |-> IdleWorker]
    /\ cfg = DefaultConfig
    /\ txs = NoTxs
    /\ find = IdleFind
    /\ loop = IdleLoop
    /\ buffered = IdleBuffered
    /\ cb = ClosedBreaker
    /\ calls = NoCalls
    /\ brokerUp = TRUE
    /\ aggUp = TRUE
    /\ consumer = IdleConsumer
    /\ processed = {}
    /\ daily = [k \in {} |-> 0]
    /\ effects = [k \in {} |-> NoEffect]

CountNext ==
    \/ ConsumerStep
    \/ ConsumerCrash
    \/ BrokerDown
    \/ BrokerRecover
    \/ AggDown
    \/ AggRecover

CountSpec == CountInit /\ [][CountNext]_vars

\* The consumer in front of a topic that also holds messages the relay did
\* not write: a payload that is not JSON, one with a blank slug, one with a
\* blank eventId.  The events are one click of abc at 1 and one of wxyz at
\* MaxTime, after its link has expired.
PoisonMsgs ==
    { [ eventId |-> 0, slug |-> "", occurredAt |-> 0, json |-> FALSE ],
      [ eventId |-> 1, slug |-> "", occurredAt |-> 1, json |-> TRUE ],
      [ eventId |-> 0, slug |-> "abc", occurredAt |-> 1, json |-> TRUE ] }

PoisonInit ==
    /\ now = MaxTime
    /\ faults = 0
    /\ reqs = <<>>
    /\ NoCall
    /\ opts = DefaultOptions
    /\ links = InitLinks
    /\ outbox = << SentEvent("abc", 1), SentEvent("wxyz", MaxTime) >>
    /\ \E msgs \in SeqsUpTo({ Message(id) : id \in EventIds } \cup PoisonMsgs, MaxLog) :
          /\ \E i \in 1 .. Len(msgs) : msgs[i] \in PoisonMsgs
          /\ topic = Produce(msgs, [p \in Partitions |-> <<>>], ZeroLoad)
    /\ workers = [w \in {"w1"} |-> IdleWorker]
    /\ cfg = DefaultConfig
    /\ txs = NoTxs
    /\ find = IdleFind
    /\ loop = IdleLoop
    /\ buffered = IdleBuffered
    /\ cb = ClosedBreaker
    /\ calls = NoCalls
    /\ brokerUp = TRUE
    /\ aggUp = TRUE
    /\ consumer = IdleConsumer
    /\ processed = {}
    /\ daily = [k \in {} |-> 0]
    /\ effects = [k \in {} |-> NoEffect]

PoisonSpec == PoisonInit /\ [][ConsumerNext]_vars

\* The stats endpoint in front of any link table and any table of daily
\* counters, with the aggregate store up or down.
DailyKeys == { <<"abc", d>> : d \in Days } \cup { <<"wxyz", 1>> }

DailyTables == { [k \in K |-> k[2] + 1] : K \in SUBSET DailyKeys }

StatsInit ==
    /\ now = MaxTime
    /\ faults = 0
    /\ reqs = <<>>
    /\ NoCall
    /\ opts = DefaultOptions
    /\ links \in LinkTables
    /\ outbox = <<>>
    /\ topic = [p \in Partitions |-> <<>>]
    /\ workers = [w \in {"w1"} |-> IdleWorker]
    /\ cfg = DefaultConfig
    /\ txs = NoTxs
    /\ find = IdleFind
    /\ loop = IdleLoop
    /\ buffered = IdleBuffered
    /\ cb = ClosedBreaker
    /\ calls = NoCalls
    /\ brokerUp = TRUE
    /\ aggUp \in BOOLEAN
    /\ consumer = IdleConsumer
    /\ processed = {}
    /\ daily \in DailyTables
    /\ effects = [k \in {} |-> NoEffect]

StatsNext ==
    \E slug \in Slugs \cup {""}, fromDay, toDay \in Days, storeErr \in BOOLEAN :
        StatsCall(slug, fromDay, toDay, storeErr)

StatsSpec == StatsInit /\ [][StatsNext]_vars

\* The links API: links are made, deleted, resolved and asked for their
\* stats.
CrudInit ==
    /\ now = MaxTime
    /\ faults = 0
    /\ reqs = <<>>
    /\ NoCall
    /\ opts = DefaultOptions
    /\ links \in LinkTables
    /\ outbox = <<>>
    /\ topic = [p \in Partitions |-> <<>>]
    /\ workers = [w \in {"w1"} |-> IdleWorker]
    /\ cfg = DefaultConfig
    /\ txs = NoTxs
    /\ find = IdleFind
    /\ loop = IdleLoop
    /\ buffered = IdleBuffered
    /\ cb = ClosedBreaker
    /\ calls = NoCalls
    /\ brokerUp = TRUE
    /\ aggUp = TRUE
    /\ consumer = IdleConsumer
    /\ processed = {}
    /\ daily = (<<"abc", 0>> :> 1)
    /\ effects = [k \in {} |-> NoEffect]

CrudNext ==
    \/ CreateStep
    \/ \E slug \in Slugs \cup {""}, storeErr \in BOOLEAN : DeleteLink(slug, storeErr)
    \/ \E slug \in Slugs, storeErr \in BOOLEAN : ResolveCall(slug, storeErr)
    \/ \E slug \in Slugs \cup {""}, fromDay, toDay \in Days, storeErr \in BOOLEAN :
          StatsCall(slug, fromDay, toDay, storeErr)

CrudSpec == CrudInit /\ [][CrudNext]_vars

\* The consumer while one link is made: no slug has a link at first, and a
\* link made with an expiration has expired when the click of wxyz occurs.
RetireInit ==
    /\ now = MaxTime
    /\ faults = 0
    /\ reqs = <<>>
    /\ NoCall
    /\ opts = DefaultOptions
    /\ links = [s \in Slugs |-> LinkRow(s, FALSE, NoTime)]
    /\ outbox = << SentEvent("abc", 1), SentEvent("wxyz", MaxTime) >>
    /\ \E ids \in SeqsUpTo(EventIds, MaxLog) :
          /\ ids # <<>>
          /\ topic = PublishAll(ids, [p \in Partitions |-> <<>>], ZeroLoad)
    /\ workers = [w \in {"w1"} |-> IdleWorker]
    /\ cfg = DefaultConfig
    /\ txs = NoTxs
    /\ find = IdleFind
    /\ loop = IdleLoop
    /\ buffered = IdleBuffered
    /\ cb = ClosedBreaker
    /\ calls = NoCalls
    /\ brokerUp = TRUE
    /\ aggUp = TRUE
    /\ consumer = IdleConsumer
    /\ processed = {}
    /\ daily = [k \in {} |-> 0]
    /\ effects = [k \in {} |-> NoEffect]

RetireNext ==
    \/ ConsumerStep
    \/ ConsumerCrash
    \/ \E validURL \in BOOLEAN, expiresAt \in {NoTime, 1} :
          reply.n = 0 /\ CreateBegin(validURL, expiresAt)
    \/ \E slug \in Slugs, genErr, storeErr \in BOOLEAN :
          CreateAttempt(slug, genErr, storeErr)

RetireSpec == RetireInit /\ [][RetireNext]_vars

\* POST /api/links behind the API-key gate, for every list of two
\* configured keys at most.
GateInit ==
    /\ now = MaxTime
    /\ faults = 0
    /\ reqs = <<>>
    /\ gate \in { [NoGate EXCEPT !.keys = keys] : keys \in SeqsUpTo(Strings, 2) }
    /\ create = NoCreate
    /\ reply = NoReply
    /\ deleted = {}
    /\ opts = DefaultOptions
    /\ links = [s \in Slugs |-> LinkRow(s, FALSE, NoTime)]
    /\ outbox = <<>>
    /\ topic = [p \in Partitions |-> <<>>]
    /\ workers = [w \in {"w1"} |-> IdleWorker]
    /\ cfg = DefaultConfig
    /\ txs = NoTxs
    /\ find = IdleFind
    /\ loop = IdleLoop
    /\ buffered = IdleBuffered
    /\ cb = ClosedBreaker
    /\ calls = NoCalls
    /\ brokerUp = TRUE
    /\ aggUp = TRUE
    /\ consumer = IdleConsumer
    /\ processed = {}
    /\ daily = [k \in {} |-> 0]
    /\ effects = [k \in {} |-> NoEffect]

GateNext ==
    \E header \in Strings, validURL \in BOOLEAN, expiresAt \in {NoTime, 1} :
        GatedCreate(header, validURL, expiresAt)

GateSpec == GateInit /\ [][GateNext]_vars

\* Two consumer instances in front of the same topic: one click of abc and
\* one of wxyz made after wxyz expired, each delivered to any instance any
\* number of times.
TxInit ==
    /\ now = MaxTime
    /\ faults = 0
    /\ reqs = <<>>
    /\ NoCall
    /\ opts = DefaultOptions
    /\ links = InitLinks
    /\ outbox = << SentEvent("abc", 1), SentEvent("wxyz", MaxTime) >>
    /\ topic = PublishAll(<<1, 2>>, [p \in Partitions |-> <<>>], ZeroLoad)
    /\ workers = [w \in {"w1"} |-> IdleWorker]
    /\ cfg = DefaultConfig
    /\ txs = [c \in {"c1", "c2"} |-> IdleTx]
    /\ find = IdleFind
    /\ loop = IdleLoop
    /\ buffered = IdleBuffered
    /\ cb = ClosedBreaker
    /\ calls = NoCalls
    /\ brokerUp = TRUE
    /\ aggUp = TRUE
    /\ consumer = IdleConsumer
    /\ processed = {}
    /\ daily = [k \in {} |-> 0]
    /\ effects = [k \in {} |-> NoEffect]

TxNext == \E c \in Instances : TxStep(c)

TxSpec == TxInit /\ [][TxNext]_vars

\* FindActiveBySlugAndIncClick next to the links API: links that never
\* expire are created and links are deleted while a call is between its two
\* statements.
FindInit ==
    /\ AtRest
    /\ opts = DefaultOptions
    /\ links \in LinkTables
    /\ outbox = <<>>
    /\ workers = [w \in {"w1"} |-> IdleWorker]
    /\ cfg = DefaultConfig
    /\ txs = NoTxs
    /\ find = IdleFind
    /\ loop = IdleLoop
    /\ buffered = IdleBuffered
    /\ cb = ClosedBreaker
    /\ calls = NoCalls
    /\ brokerUp = TRUE
    /\ aggUp = TRUE

FindNext ==
    \/ \E slug \in Slugs, at \in 0 .. MaxTime, storeErr \in BOOLEAN :
          FindInc(slug, at, storeErr)
    \/ \E storeErr \in BOOLEAN : FindLookup(storeErr)
    \/ CreateBegin(TRUE, NoTime)
    \/ \E slug \in Slugs : CreateAttempt(slug, FALSE, FALSE)
    \/ \E slug \in Slugs : DeleteLink(slug, FALSE)

FindSpec == FindInit /\ [][FindNext]_vars

\* One click of abc, recorded before the last tick of the clock, on its
\* way through the relay worker and the consumer while the clock runs on
\* into the next day.
DayInit ==
    /\ \E t \in 0 .. (MaxTime - 1) :
          /\ now = t
          /\ outbox = << EnqueueClickOutbox("abc", t, 0) >>
    /\ faults = 0
    /\ reqs = <<>>
    /\ NoCall
    /\ topic = [p \in Partitions |-> <<>>]
    /\ consumer = IdleConsumer
    /\ processed = {}
    /\ daily = [k \in {} |-> 0]
    /\ effects = [k \in {} |-> NoEffect]
    /\ opts = DefaultOptions
    /\ links = InitLinks
    /\ workers = [w \in {"w1"} |-> IdleWorker]
    /\ cfg = DefaultConfig
    /\ txs = NoTxs
    /\ find = IdleFind
    /\ loop = IdleLoop
    /\ buffered = IdleBuffered
    /\ cb = ClosedBreaker
    /\ calls = NoCalls
    /\ brokerUp = TRUE
    /\ aggUp = TRUE

DayNext ==
    \/ \E w \in WorkerIds : RelayStep(w)
    \/ \E w \in WorkerIds : WorkerCrash(w)
    \/ ConsumerStep
    \/ ConsumerCrash
    \/ Tick
    \/ BrokerDown
    \/ BrokerRecover
    \/ AggDown
    \/ AggRecover

DaySpec == DayInit /\ [][DayNext]_vars

\* The poll loop of one relay worker until its shutdown signal: a click
\* recorded a tick ago waits in the outbox, and more arrive.
ShutdownInit ==
    /\ now = 1
    /\ faults = 0
    /\ reqs = <<>>
    /\ NoCall
    /\ topic = [p \in Partitions |-> <<>>]
    /\ consumer = IdleConsumer
    /\ processed = {}
    /\ daily = [k \in {} |-> 0]
    /\ effects = [k \in {} |-> NoEffect]
    /\ opts = DefaultOptions
    /\ links = InitLinks
    /\ outbox = << [ EnqueueClickOutbox("abc", 0, 0) EXCEPT !.createdAt = 0 ] >>
    /\ workers = [w \in {} |-> IdleWorker]
    /\ cfg = DefaultConfig
    /\ txs = NoTxs
    /\ find = IdleFind
    /\ loop = IdleLoop
    /\ buffered = IdleBuffered
    /\ cb = ClosedBreaker
    /\ calls = NoCalls
    /\ brokerUp = TRUE
    /\ aggUp = TRUE

ShutdownNext ==
    \/ LoopStep
    \/ Signal
    \/ ClickOn("abc")
    \/ Tick
    \/ BrokerDown
    \/ BrokerRecover

ShutdownSpec == ShutdownInit /\ [][ShutdownNext]_vars

\* The buffered stats repository from its construction to the return of
\* Shutdown, with a store that may refuse a write.
BufferedInit ==
    /\ now = 0
    /\ faults = 0
    /\ reqs = <<>>
    /\ NoCall
    /\ topic = [p \in Partitions |-> <<>>]
    /\ consumer = IdleConsumer
    /\ processed = {}
    /\ daily = NoCounts
    /\ effects = [k \in {} |-> NoEffect]
    /\ opts = DefaultOptions
    /\ links = InitLinks
    /\ outbox = <<>>
    /\ workers = [w \in {} |-> IdleWorker]
    /\ cfg = DefaultConfig
    /\ txs = NoTxs
    /\ find = IdleFind
    /\ loop = IdleLoop
    /\ buffered = IdleBuffered
    /\ cb = ClosedBreaker
    /\ calls = NoCalls
    /\ brokerUp = TRUE
    /\ aggUp = TRUE

BufferedNext ==
    \/ BufferedStep
    \/ Tick
    \/ AggDown
    \/ AggRecover

BufferedSpec == BufferedInit /\ [][BufferedNext]_vars

\* Three callers of one Client, hence of one CircuitBreaker.
BreakerInit ==
    /\ now = 0
    /\ faults = 0
    /\ reqs = <<>>
    /\ NoCall
    /\ topic = [p \in Partitions |-> <<>>]
    /\ consumer = IdleConsumer
    /\ processed = {}
    /\ daily = NoCounts
    /\ effects = [k \in {} |-> NoEffect]
    /\ opts = DefaultOptions
    /\ links = InitLinks
    /\ outbox = <<>>
    /\ workers = [w \in {} |-> IdleWorker]
    /\ cfg = DefaultConfig
    /\ txs = NoTxs
    /\ find = IdleFind
    /\ loop = IdleLoop
    /\ buffered = IdleBuffered
    /\ cb = ClosedBreaker
    /\ calls = NoCalls
    /\ brokerUp = TRUE
    /\ aggUp = TRUE

BreakerNext == ClientStep

BreakerSpec == BreakerInit /\ [][BreakerNext]_vars

\* ------------------------------------------------------------------ claims

Redirects == {301, 302}

\* The outbox rows a request has appended.
EventsOf(r) == { id \in EventIds : outbox[id].req = r }

\* C1 as stated: once every delivery is processed, the daily counter of
\* every processed event has been incremented exactly once.
C1_DailyExactlyOnce ==
    ConsumerDrained => \A id \in processed : Effect(id).daily = 1

\* C1: whatever the deliveries of an event, its daily counter and its
\* link's click counter are incremented together and at most once: once when
\* the link exists and has no expiration or one not before occurredAt, never
\* otherwise; the counters in the tables are exactly these increments.
C1_CountedAtMostOnce ==
    LET Counted(id) ==
            /\ id \in processed
            /\ links[outbox[id].slug].present
            /\ \/ links[outbox[id].slug].expiresAt = NoTime
               \/ links[outbox[id].slug].expiresAt >= outbox[id].occurredAt
    IN  /\ \A id \in EventIds :
              /\ Effect(id).daily = IF Counted(id) THEN 1 ELSE 0
              /\ Effect(id).clicks = Effect(id).daily
              /\ Counted(id) =>
                    <<outbox[id].slug, outbox[id].occurredAt \div TicksPerDay>>
                        \in DOMAIN daily
        /\ \A s \in Slugs :
              links[s].clicks =
                  Cardinality({ id \in EventIds : Counted(id) /\ outbox[id].slug = s })
        /\ \A k \in DOMAIN daily :
              daily[k] =
                  Cardinality({ id \in EventIds :
                                  /\ Counted(id)
                                  /\ outbox[id].slug = k[1]
                                  /\ outbox[id].occurredAt \div TicksPerDay = k[2] })

\* C1 witness: an event was processed twice without error, nothing is left
\* to deliver, and its daily counter stands at 1.
C1_Witness ==
    \E id \in EventIds :
        /\ ConsumerDrained
        /\ Effect(id).seen >= 2
        /\ Effect(id).daily = 1
        /\ daily[<<outbox[id].slug, outbox[id].occurredAt \div TicksPerDay>>] = 1
        /\ links[outbox[id].slug].clicks = 1

\* Nothing is left to do anywhere in the pipeline.
PipelineQuiet ==
    /\ \A r \in ReqIds : reqs[r].click # "spawned"
    /\ \A id \in EventIds : outbox[id].status = "sent"
    /\ \A w \in WorkerIds : workers[w].pc = "idle"
    /\ ConsumerDrained

\* C2: once the pipeline has nothing left to do, every redirect answered
\* 3xx has caused exactly one increment of a daily counter.
C2_RedirectCountedOnce ==
    PipelineQuiet =>
        \A r \in ReqIds :
            reqs[r].status \in Redirects =>
                /\ Cardinality({ id \in EventsOf(r) : Effect(id).daily >= 1 }) = 1
                /\ \A id \in EventsOf(r) : Effect(id).daily <= 1

\* C3: a request answered 3xx has exactly one outbox event of its slug, in
\* the outbox from the moment the response is written.
C3_EventBeforeResponse ==
    \A r \in ReqIds :
        reqs[r].status \in Redirects =>
            /\ Cardinality(EventsOf(r)) = 1
            /\ \A id \in EventsOf(r) : outbox[id].slug = reqs[r].slug

\* C4: a request whose outbox append failed is answered 5xx without a
\* Location.
C4_AppendFailureIs5xx ==
    \A r \in ReqIds :
        reqs[r].click = "failed" =>
            /\ reqs[r].status >= 500
            /\ reqs[r].location = NoLocation

\* C5: with the link store answering, a slug without a link gets 404, a
\* link whose expiration is before the request's instant gets 410, a link
\* with no expiration or one at or after that instant gets the 3xx; a 404
\* or 410 request appends no outbox event.
C5_ResolveOutcome ==
    \A r \in ReqIds :
        /\ ~reqs[r].storeErr =>
              reqs[r].status =
                  IF ~reqs[r].present THEN 404
                  ELSE IF reqs[r].expiresAt # NoTime /\ reqs[r].expiresAt < reqs[r].at
                         THEN 410
                         ELSE opts.redirectStatus
        /\ reqs[r].status \in {404, 410} =>
              /\ reqs[r].click = "none"
              /\ reqs[r].location = NoLocation
              /\ EventsOf(r) = {}

\* C5 witness: a link was redirected at the very instant of its expiration
\* and a later request for it was refused with 410.
C5_Witness ==
    \E r, q \in ReqIds :
        /\ reqs[r].status \in Redirects
        /\ reqs[r].expiresAt = reqs[r].at
        /\ reqs[q].status = 410
        /\ reqs[q].slug = reqs[r].slug
        /\ reqs[q].expiresAt < reqs[q].at

MarkPcs == {"markSent", "markRetry"}

\* The step is worker w's MarkSent or MarkRetry query coming back without a
\* query error.
MarkReturned(w) ==
    /\ workers[w].pc \in MarkPcs
    /\ workers'[w] # workers[w]
    /\ workers'[w].markRes \in {"ok", "notOwned"}

\* C8: a ClaimNextOutboxEvent query hands a row to a worker only when the
\* row was pending and due or its lease had run out, and the row then
\* belongs to that worker; a row in processing whose lease has not run out
\* never passes to another owner.
C8_ClaimsExclusive ==
    [][\A id \in EventIds :
          /\ (outbox[id].status = "processing" /\ outbox[id].leaseIn > 0
                 /\ outbox'[id].status = "processing")
               => outbox'[id].owner = outbox[id].owner
          /\ \A w \in WorkerIds :
               (id \notin HeldIds(w) /\ id \in HeldIds(w)')
                 => /\ \/ outbox[id].status = "pending"
                             /\ outbox[id].nextAttemptIn = 0
                       \/ outbox[id].status = "processing"
                             /\ outbox[id].leaseIn = 0
                    /\ outbox'[id].owner = w
                    /\ outbox'[id].status = "processing"
                    /\ outbox'[id].leaseIn > 0
      ]_vars

\* C8 witness: two workers hold the same row in their batches, the second
\* took it after the first one's lease ran out and its own lease still runs.
C8_Witness ==
    \E id \in EventIds : \E w, v \in WorkerIds :
        /\ w # v
        /\ id \in HeldIds(w)
        /\ id \in HeldIds(v)
        /\ outbox[id].status = "processing"
        /\ outbox[id].owner = v
        /\ outbox[id].leaseIn > 0

\* C9: a MarkSent or MarkRetry by a worker that is not the row's owner, or
\* for a row that is not in processing, changes no column of the row,
\* reports not-owned and the worker lets the row go; a row leaves
\* processing only by a mark of its owner.
C9_StaleMarkIsNoOp ==
    [][\A id \in EventIds :
          /\ \A w \in WorkerIds :
               (MarkReturned(w) /\ Head(workers[w].batch).id = id)
                 => IF outbox[id].status = "processing" /\ outbox[id].owner = w
                      THEN /\ workers'[w].markRes = "ok"
                           /\ outbox'[id].status \in {"sent", "pending"}
                      ELSE /\ workers'[w].markRes = "notOwned"
                           /\ outbox'[id] = outbox[id]
                           /\ id \notin HeldIds(w)'
          /\ (outbox[id].status = "processing"
                 /\ outbox'[id].status # "processing")
               => \E w \in WorkerIds :
                     /\ outbox[id].owner = w
                     /\ MarkReturned(w)
                     /\ Head(workers[w].batch).id = id
      ]_vars

\* C9 witness: a worker's mark came back not-owned while another worker
\* owns the row.
C9_Witness ==
    \E id \in EventIds : \E w, v \in WorkerIds :
        /\ w # v
        /\ workers[w].markRes = "notOwned"
        /\ id \notin HeldIds(w)
        /\ outbox[id].status = "processing"
        /\ outbox[id].owner = v

\* C10: all messages of one slug are in one partition of the topic.
C10_SlugOnePartition ==
    \A p, q \in Partitions :
        \A i \in 1 .. Len(topic[p]) : \A j \in 1 .. Len(topic[q]) :
            topic[p][i].slug = topic[q][j].slug => p = q

\* C11: of two outbox events of one slug, the consumer processes the one
\* created first before the one created later.
C11_SlugOrder ==
    \A e1, e2 \in EventIds :
        ( /\ outbox[e1].slug = outbox[e2].slug
          /\ outbox[e1].createdAt < outbox[e2].createdAt
          /\ e2 \in processed )
        => e1 \in processed

C13_FailedStaysUnacked ==
    \A p \in Partitions : \A o \in 1 .. Len(topic[p]) :
        o < consumer.committed[p] =>
            \/ Poison(topic[p][o])
            \/ topic[p][o].eventId \in processed

\* C14: when Process runs the transaction of an event whose link is missing
\* or expired at occurredAt, the event enters the registry, no link counter
\* and no daily counter changes, and the loop goes on to CommitMessages; a
\* later delivery of an event retired this way changes neither the registry
\* nor a counter, whatever the link table holds by then, and is
\* acknowledged too.
C14_RetiredClick ==
    [][ ( /\ consumer.pc = "process"
          /\ consumer' # consumer
          /\ faults' = faults
          /\ aggUp )
        => LET msg == CurMsg
               id == msg.eventId
               link == links[msg.slug]
               inactive == \/ ~link.present
                           \/ link.expiresAt # NoTime /\ link.expiresAt < msg.occurredAt
           IN  /\ (id \notin processed /\ inactive)
                  => /\ processed' = processed \cup {id}
                     /\ links' = links
                     /\ daily' = daily
                     /\ consumer'.pc = "commit"
               /\ (id \in processed /\ Effect(id).daily = 0)
                  => /\ UNCHANGED <<processed, links, daily>>
                     /\ consumer'.pc = "commit"
      ]_vars

\* C14 witness: an event was retired, a link of its slug that is active at
\* its occurredAt was made afterwards, the event was processed again, and
\* the new link's click counter and the daily counters are still empty.
C14_Witness ==
    \E id \in processed :
        /\ ConsumerDrained
        /\ Effect(id).seen >= 2
        /\ Effect(id).daily = 0
        /\ links[outbox[id].slug].present
        /\ links[outbox[id].slug].expiresAt = NoTime
        /\ links[outbox[id].slug].clicks = 0
        /\ reply.op = "create"
        /\ reply.slug = outbox[id].slug
        /\ \A k \in DOMAIN daily : k[1] # outbox[id].slug

\* C15: processMessage of a poison message changes neither the registry nor
\* a link nor a daily counter, with the aggregate store up or down, and the
\* loop goes on to CommitMessages, which moves the offset past the message
\* and leaves the reader where it was, on the next message.
C15_PoisonDiscarded ==
    [][ LET unusable == /\ consumer.cur # NoMsg
                        /\ \/ ~CurMsg.json
                           \/ CurMsg.slug = ""
                           \/ CurMsg.eventId = 0
        IN /\ ( /\ consumer.pc = "process"
                /\ unusable
                /\ consumer' # consumer
                /\ faults' = faults )
              => /\ consumer' = [consumer EXCEPT !.pc = "commit"]
                 /\ UNCHANGED <<processed, links, daily>>
           /\ ( /\ consumer.pc = "commit"
                /\ unusable
                /\ brokerUp
                /\ consumer' # consumer
                /\ faults' = faults )
              => /\ consumer'.committed[consumer.cur[1]] = consumer.cur[2] + 1
                 /\ consumer'.pc = "fetch"
                 /\ consumer'.pos = consumer.pos
                 /\ UNCHANGED <<processed, links, daily>>
      ]_vars

\* C15 witness: the offset is committed past a poison message and past a
\* valid message behind it on the same partition, whose event is in the
\* registry, and the registry holds no blank event id.
C15_Witness ==
    \E p \in Partitions : \E i, j \in 1 .. Len(topic[p]) :
        /\ i < j
        /\ Poison(topic[p][i])
        /\ ~Poison(topic[p][j])
        /\ consumer.committed[p] > j
        /\ Effect(topic[p][j].eventId).seen >= 1
        /\ topic[p][j].eventId \in processed
        /\ 0 \notin processed

\* C16: a stats call for a slug that has a link, with from <= to and the
\* stores answering, returns to - from + 1 entries, the i-th for the day
\* from + i - 1, carrying the count of the (slug, day) row of clicks_daily
\* or 0 when there is no such row.
C16_StatsEveryDay ==
    [][ ( /\ reply'.n # reply.n
          /\ reply'.op = "stats"
          /\ faults' = faults
          /\ aggUp
          /\ reply'.slug \in Slugs
          /\ reply'.from <= reply'.to )
        => ( links[reply'.slug].present
             => /\ reply'.err = "none"
                /\ Len(reply'.daily) = reply'.to - reply'.from + 1
                /\ \A i \in 1 .. Len(reply'.daily) :
                      LET day == reply'.from + i - 1
                      IN  /\ reply'.daily[i].date = day
                          /\ reply'.daily[i].count =
                                IF <<reply'.slug, day>> \in DOMAIN daily
                                  THEN daily[<<reply'.slug, day>>]
                                  ELSE 0 )
      ]_vars

\* C16 witness: a stats call over three days returned three entries, one of
\* them 0 for a day without a row and one the count of a stored row.
C16_Witness ==
    /\ reply.op = "stats"
    /\ reply.err = "none"
    /\ reply.from = 0
    /\ reply.to = 2
    /\ Len(reply.daily) = 3
    /\ \E i, j \in 1 .. 3 :
          /\ reply.daily[i].count = 0
          /\ reply.daily[j].count > 0

\* C17: a stats call with from > to, the stores answering, returns
\* invalid-range, whether or not the slug has a link.
C17_InvalidRangeFirst ==
    ( /\ reply.op = "stats"
      /\ reply.from > reply.to
      /\ faults = 0 )
    => reply.err = "invalidRange"

\* C18: CreateLink calls Insert at most maxAttempts times; it goes round
\* again only after slug-taken, which leaves the link table as it was; a
\* slugger or store failure ends the call at once with that error; a reply
\* without error carries the slug of the row just inserted, which had no row
\* before; a reply with an error leaves the link table as it was, and
\* slug-taken is returned only after maxAttempts inserts.
C18_CreateRetries ==
    [][ /\ create.attempts <= maxAttempts
        /\ ( create.active /\ create'.active /\ create' # create )
           => /\ create'.attempts = create.attempts + 1
              /\ faults' = faults
              /\ links' = links
              /\ reply' = reply
        /\ ( create.active /\ create' # create /\ faults' # faults )
           => /\ ~create'.active
              /\ reply'.n = reply.n + 1
              /\ reply'.op = "create"
              /\ reply'.err = "error"
              /\ links' = links
        /\ ( reply'.n # reply.n /\ reply'.op = "create" )
           => /\ reply'.attempts <= maxAttempts
              /\ reply'.err = "none"
                 => /\ ~links[reply'.slug].present
                    /\ links' = [links EXCEPT ![reply'.slug] =
                                    LinkRow(reply'.slug, TRUE, create.expiresAt)]
              /\ reply'.err # "none" => links' = links
              /\ reply'.err = "slugTaken" => reply'.attempts = maxAttempts
      ]_vars

\* C18 witness: a CreateLink call returned slug-taken after maxAttempts
\* inserts, every slug still carrying the link it had.
C18_Witness ==
    /\ reply.op = "create"
    /\ reply.err = "slugTaken"
    /\ reply.attempts = maxAttempts
    /\ \A s \in Slugs : links[s].present

\* C19: a slug deleted with was-present = true has no link until one is
\* inserted again, and Resolve and GetStats of it return not-found; a delete
\* of a slug with a link removes the link, and a delete of a blank slug or of
\* a slug without a link returns not-found and leaves links and daily
\* counters as they were.
C19_DeletedIsGone ==
    [][ /\ \A s \in deleted : ~links[s].present
        /\ ( /\ reply'.n # reply.n
             /\ reply'.op \in {"resolve", "stats"}
             /\ reply'.slug \in deleted
             /\ faults' = faults )
           => reply'.err = "notFound"
        /\ ( /\ reply'.n # reply.n
             /\ reply'.op = "delete"
             /\ faults' = faults )
           => IF reply'.slug \in Slugs /\ links[reply'.slug].present
                THEN /\ reply'.err = "none"
                     /\ reply'.slug \in deleted'
                ELSE /\ reply'.err = "notFound"
                     /\ UNCHANGED <<links, daily, deleted>>
      ]_vars

\* C19 witness: a slug was deleted and then asked for its stats, which
\* returned not-found.
C19_Witness ==
    /\ reply.op = "stats"
    /\ reply.slug \in deleted
    /\ reply.from <= reply.to
    /\ reply.err = "notFound"

\* C20: no step of the pipeline lowers a link's click counter or a daily
\* counter or removes a daily counter, and no counter is negative.
C20_CountersMonotone ==
    [][ /\ \A s \in Slugs :
              /\ links[s].clicks >= 0
              /\ links'[s].clicks >= links[s].clicks
        /\ \A k \in DOMAIN daily :
              /\ daily[k] >= 0
              /\ k \in DOMAIN daily'
              /\ daily'[k] >= daily[k]
        /\ \A k \in DOMAIN daily' : daily'[k] >= 0
      ]_vars

\* C20 witness: two clicks of one slug on one day were counted, on the link
\* and in the daily counter.
C20_Witness ==
    \E k \in DOMAIN daily :
        /\ daily[k] = 2
        /\ links[k[1]].clicks = 2

\* C21: an event id is in the registry exactly when the event's counters
\* have been incremented.
C21_RegistryIffApplied ==
    \A id \in EventIds :
        id \in processed <=> Effect(id).clicks >= 1

\* C21, amended: no step takes an event id out of the registry; an id is in
\* the registry exactly when a call of Process for it has returned without
\* error; it enters the registry in the step of Process for a message that
\* carries it, together with one increment of the link counter and of the
\* daily counter when the link is active at occurredAt and with no
\* increment otherwise; no event outside the registry has an increment.
C21_RegistryInsertOnce ==
    [][ /\ processed \subseteq processed'
        /\ \A id \in EventIds :
              /\ id \in processed <=> Effect(id).seen >= 1
              /\ (Effect(id).clicks >= 1 \/ Effect(id).daily >= 1)
                 => id \in processed
        /\ \A id \in processed' \ processed :
              /\ consumer.pc = "process"
              /\ CurMsg.eventId = id
              /\ processed' = processed \cup {id}
              /\ LET link == links[CurMsg.slug]
                     active == /\ link.present
                               /\ \/ link.expiresAt = NoTime
                                  \/ link.expiresAt >= CurMsg.occurredAt
                     incs == IF active THEN 1 ELSE 0
                 IN  /\ links'[CurMsg.slug].clicks = link.clicks + incs
                     /\ Effect(id).clicks = 0
                     /\ Effect(id).daily = 0
      ]_vars

\* C21 witness: the registry holds one event whose counters were
\* incremented and one retired event without an increment, one of them
\* delivered twice.
C21_Witness ==
    \E id1, id2 \in processed :
        /\ Effect(id1).clicks = 1
        /\ Effect(id1).daily = 1
        /\ Effect(id2).clicks = 0
        /\ Effect(id2).daily = 0
        /\ Effect(id1).seen + Effect(id2).seen >= 3

\* C22: a request reaches LinksHandler.Create exactly when no configured key
\* is left after trimming, or its X-API-Key header, trimmed, is one of the
\* trimmed non-blank configured keys; every other request is answered 401
\* and no CreateLink call starts.
C22_GateIff ==
    [][ gate'.n # gate.n
        => LET keys == gate.keys
               h == gate'.header
               open == \A i \in 1 .. Len(keys) : TrimSpace(keys[i]) = <<>>
               match == \E i \in 1 .. Len(keys) :
                           /\ TrimSpace(keys[i]) # <<>>
                           /\ TrimSpace(h) = TrimSpace(keys[i])
               refused == /\ reply'.n = reply.n + 1
                          /\ reply'.err = "unauthorized"
                          /\ create' = create
                          /\ links' = links
               served == \/ create'.active /\ ~create.active /\ reply' = reply
                         \/ /\ reply'.n = reply.n + 1
                            /\ reply'.err = "invalidURL"
                            /\ create' = create
           IN  /\ (open \/ match) => served
               /\ ~(open \/ match) => refused
      ]_vars

\* C22 witness: with a key configured, a request with another key was
\* refused, and then a request whose header is the key with white space
\* around it reached the handler, which started CreateLink.
C22_Witness ==
    /\ AllowedKeys(gate.keys) # {}
    /\ gate.n = 2
    /\ gate.header # TrimSpace(gate.header)
    /\ TrimSpace(gate.header) \in AllowedKeys(gate.keys)
    /\ reply.n = 1
    /\ reply.err = "unauthorized"
    /\ create.active

\* C23: every query of a ClaimPending call that takes a row takes one the
\* call does not hold yet, which was pending with its next attempt due or
\* processing with its lease run out, and of least created_at among such
\* rows; it leaves the row processing, owned by the caller, with a full
\* lease, and touches no other row; the call never holds more than its
\* limit, and no row becomes processing, changes its owner to a worker or
\* has its lease renewed in any other way.
C23_ClaimPending ==
    [][ \A w \in WorkerIds :
          LET grown == Len(workers'[w].batch) > Len(workers[w].batch)
              due(id) == \/ /\ outbox[id].status = "pending"
                            /\ outbox[id].nextAttemptIn = 0
                         \/ /\ outbox[id].status = "processing"
                            /\ outbox[id].leaseIn = 0
          IN  /\ grown =>
                    LET id == workers'[w].batch[Len(workers'[w].batch)].id
                    IN  /\ Len(workers'[w].batch) = Len(workers[w].batch) + 1
                        /\ Len(workers'[w].batch) <= BatchSize
                        /\ id \notin HeldIds(w)
                        /\ due(id)
                        /\ \A other \in EventIds \ HeldIds(w) :
                              due(other) =>
                                  outbox[id].createdAt <= outbox[other].createdAt
                        /\ outbox' = [outbox EXCEPT ![id] =
                                         [@ EXCEPT !.status = "processing",
                                                   !.owner = w,
                                                   !.leaseIn = ClaimLease]]
              /\ \A id \in EventIds :
                    ( /\ outbox'[id].status = "processing"
                      /\ outbox'[id].owner = w
                      /\ \/ outbox[id].status # "processing"
                         \/ outbox[id].owner # w
                         \/ outbox'[id].leaseIn > outbox[id].leaseIn ) => grown
      ]_vars

\* C23 witness: a call returned a full batch of two rows of different
\* created_at, the older first, both processing under the caller, while a
\* sent row stayed as it was.
C23_Witness ==
    \E w \in WorkerIds :
        /\ workers[w].pc = "publish"
        /\ Len(workers[w].batch) = 2
        /\ LET a == workers[w].batch[1].id
               b == workers[w].batch[2].id
           IN  /\ outbox[a].createdAt < outbox[b].createdAt
               /\ outbox[a].status = "processing" /\ outbox[a].owner = w
               /\ outbox[b].status = "processing" /\ outbox[b].owner = w

\* C24: an outbox row starts pending with no attempt made and its first
\* attempt due at once; a status changes only from pending to processing,
\* from processing to sent or from processing to pending, a processing row
\* changes hands only once its lease has run out, a sent row never changes
\* again, and no row is removed or has its slug, times of occurrence and
\* creation rewritten.
C24_RowLifecycle ==
    [][ /\ Len(outbox') >= Len(outbox)
        /\ \A id \in 1 .. Len(outbox') :
              IF id > Len(outbox)
              THEN /\ outbox'[id].status = "pending"
                   /\ outbox'[id].attempts = 0
                   /\ outbox'[id].nextAttemptIn = 0
                   /\ outbox'[id].createdAt = now
                   /\ outbox'[id].owner = NoOwner
                   /\ outbox'[id].sentAt = NoTime
              ELSE /\ outbox'[id].slug = outbox[id].slug
                   /\ outbox'[id].occurredAt = outbox[id].occurredAt
                   /\ outbox'[id].createdAt = outbox[id].createdAt
                   /\ outbox'[id].status # outbox[id].status =>
                         <<outbox[id].status, outbox'[id].status>> \in
                             { <<"pending", "processing">>,
                               <<"processing", "sent">>,
                               <<"processing", "pending">> }
                   /\ ( /\ outbox[id].status = "processing"
                        /\ outbox'[id].status = "processing"
                        /\ outbox'[id].owner # outbox[id].owner )
                          => outbox[id].leaseIn = 0
                   /\ outbox[id].status = "sent" => outbox'[id] = outbox[id]
      ]_vars

\* C24 witness: a click recorded while the worker ran went through every
\* change of status: its publish failed once, it waited out the backoff, was
\* claimed again and sent.
C24_Witness ==
    /\ Len(outbox) >= 2
    /\ outbox[2].status = "sent"
    /\ outbox[2].attempts >= 1
    /\ outbox[2].sentAt # NoTime

\* C25: a row is marked sent only by the worker that owns it, after that
\* worker's write of a message with the row's id and slug was accepted by
\* the broker; the mark sets sent_at and clears the owner and the lease, and
\* every sent row keeps these fields and has its message in the topic.
C25_SentAfterPublish ==
    [][ \A id \in EventIds :
          LET published ==
                  \E p \in Partitions : \E i \in 1 .. Len(topic[p]) :
                      /\ topic[p][i].eventId = id
                      /\ topic[p][i].slug = outbox[id].slug
                      /\ topic[p][i].occurredAt = outbox[id].occurredAt
                      /\ topic[p][i].json
          IN  /\ (outbox'[id].status = "sent" /\ outbox[id].status # "sent") =>
                    /\ published
                    /\ \E w \in WorkerIds :
                          /\ workers[w].pc = "markSent"
                          /\ Head(workers[w].batch).id = id
                          /\ outbox[id].owner = w
                    /\ outbox'[id].sentAt = now
              /\ outbox'[id].status = "sent" =>
                    /\ outbox'[id].sentAt # NoTime
                    /\ outbox'[id].owner = NoOwner
                    /\ outbox'[id].leaseIn = NoTime
              /\ outbox[id].status = "sent" => published
      ]_vars

\* C25 witness: one click is sent and its message is in the topic, while a
\* click whose publish failed waits for its next attempt and has no message.
C25_Witness ==
    \E id1, id2 \in EventIds :
        /\ outbox[id1].status = "sent"
        /\ \E p \in Partitions : \E i \in 1 .. Len(topic[p]) :
              topic[p][i].eventId = id1
        /\ outbox[id2].status = "pending"
        /\ outbox[id2].attempts >= 1
        /\ \A p \in Partitions : \A i \in 1 .. Len(topic[p]) :
              topic[p][i].eventId # id2

\* C26: a row goes back from processing to pending only in a MarkRetry of
\* the worker that owns it; the step adds one to attempts, clears the owner
\* and the lease, and sets the wait before the next attempt to
\* min(retry_base * 2^attempts, retry_max) for the new value of attempts,
\* which is never above retry_max nor above the wait one more failure gives.
C26_RetryBackoff ==
    [][ \A id \in EventIds :
          (outbox[id].status = "processing" /\ outbox'[id].status = "pending") =>
              LET n == outbox[id].attempts + 1
                  doubled == cfg.retryBase * 2 ^ n
                  wait == IF doubled < cfg.retryMax THEN doubled ELSE cfg.retryMax
              IN  /\ \E w \in WorkerIds :
                        /\ workers[w].pc = "markRetry"
                        /\ Head(workers[w].batch).id = id
                        /\ outbox[id].owner = w
                  /\ outbox'[id].attempts = n
                  /\ outbox'[id].nextAttemptIn = wait
                  /\ outbox'[id].nextAttemptIn <= cfg.retryMax
                  /\ outbox'[id].nextAttemptIn <=
                         backoffDelay(cfg.retryBase, cfg.retryMax, n + 1)
                  /\ outbox'[id].owner = NoOwner
                  /\ outbox'[id].leaseIn = NoTime
      ]_vars

\* C26 witness: a click that has just failed for the second time waits four
\* times the base delay, which is still below the cap.
C26_Witness ==
    \E id \in EventIds :
        /\ outbox[id].status = "pending"
        /\ outbox[id].attempts = 2
        /\ outbox[id].nextAttemptIn = cfg.retryBase * 2 ^ 2
        /\ outbox[id].nextAttemptIn < cfg.retryMax

\* C27: the tables of the aggregate store change only when a transaction
\* of Process commits, and then all at once: the registry gains the row of
\* the transaction's event and, in the same step, the link's counter and
\* the counter of the click's day go up by one when the link is active at
\* the click, and stay as they are when it is not; a transaction that ends
\* in an error, or finds the event registered, changes no table.
C27_AllOrNothing ==
    [][ /\ (processed' # processed \/ links' # links \/ daily' # daily) =>
              \E c \in Instances :
                  LET t == txs[c]
                      key == <<t.slug, t.occurredAt \div TicksPerDay>>
                      active ==
                          /\ links[t.slug].present
                          /\ \/ links[t.slug].expiresAt = NoTime
                             \/ links[t.slug].expiresAt >= t.occurredAt
                  IN  /\ t.pc = "commit"
                      /\ txs'[c].pc = "done"
                      /\ txs'[c].res \in {"applied", "retired"}
                      /\ t.id \notin processed
                      /\ processed' = processed \cup {t.id}
                      /\ IF active
                           THEN /\ links' = [links EXCEPT ![t.slug].clicks = @ + 1]
                                /\ DOMAIN daily' = DOMAIN daily \cup {key}
                                /\ \A k \in DOMAIN daily' :
                                      daily'[k] =
                                          (IF k \in DOMAIN daily THEN daily[k] ELSE 0)
                                          + (IF k = key THEN 1 ELSE 0)
                                /\ txs'[c].res = "applied"
                           ELSE /\ links' = links
                                /\ daily' = daily
                                /\ txs'[c].res = "retired"
        /\ \A c \in Instances :
              (txs'[c] # txs[c] /\ txs'[c].res \in {"error", "already"}) =>
                  /\ processed' = processed
                  /\ links' = links
                  /\ daily' = daily
      ]_vars

\* C27 witness: a transaction failed after its three statements and left
\* no trace, and the other instance then applied the same click; the click
\* of the expired link left its registry row alone.
C27_Witness ==
    \E c, d \in Instances :
        /\ txs[c].pc = "done" /\ txs[c].res = "error"
        /\ txs[c].reg /\ txs[c].link /\ txs[c].day
        /\ txs[d].pc = "done" /\ txs[d].res = "applied" /\ txs[d].id = txs[c].id
        /\ links[txs[c].slug].clicks = 1
        /\ \E id \in processed :
              /\ id # txs[c].id
              /\ links[outbox[id].slug].clicks = 0

\* C28: however the transactions of the instances interleave, the registry
\* row of an event is inserted by one committed transaction at most, its
\* increments of the link's counter and of the day's counter are made once
\* at most, no link counts more clicks than it has events, and every
\* transaction that ended without error left the event registered.
C28_OnceUnderRace ==
    /\ \A id \in EventIds :
          /\ Effect(id).seen <= 1
          /\ Effect(id).clicks <= 1
          /\ Effect(id).daily <= 1
          /\ Effect(id).seen = 1 <=> id \in processed
    /\ \A s \in Slugs :
          links[s].clicks <= Cardinality({ id \in EventIds : outbox[id].slug = s })
    /\ \A k \in DOMAIN daily :
          daily[k] <= Cardinality({ id \in EventIds :
                          /\ outbox[id].slug = k[1]
                          /\ outbox[id].occurredAt \div TicksPerDay = k[2] })
    /\ \A c \in Instances :
          (txs[c].pc = "done" /\ txs[c].res \in {"applied", "retired", "already"})
              => txs[c].id \in processed

\* C28 witness: an instance began the transaction of a click while the
\* other one's transaction for it was open, and found the event registered
\* once that one had applied it.
C28_Witness ==
    \E c, d \in Instances :
        /\ c # d
        /\ txs[c].pc = "done" /\ txs[c].res = "applied"
        /\ txs[d].pc = "done" /\ txs[d].res = "already"
        /\ txs[d].id = txs[c].id
        /\ txs[d].overlap
        /\ Effect(txs[c].id).clicks = 1
        /\ links[txs[c].slug].clicks = 1

\* C29: a call of find_active_and_increment that returns a link met, in its
\* UPDATE, a link of that slug that was active at the given instant, raised
\* its counter by one and returns the raised row; a call that returns
\* expired changed nothing and met, in one of its two statements, a link of
\* that slug that was not active at the instant; a call that returns
\* not-found changed nothing and met no link of that slug in its lookup.
C29_FindActiveAndIncrement ==
    [][ (find' # find /\ find'.pc = "done") =>
          LET slug == find'.slug
              at == find'.at
              live(row) == /\ row.present
                           /\ row.expiresAt = NoTime \/ row.expiresAt >= at
              lapsed(row) == row.present /\ ~live(row)
          IN  /\ find'.res = "ok" =>
                    /\ live(links[slug])
                    /\ links' = [links EXCEPT ![slug].clicks = @ + 1]
                    /\ find'.link = links'[slug]
              /\ find'.res # "ok" => links' = links
              /\ (find.pc # "lookup" /\ find'.res # "error") => find'.res = "ok"
              /\ find'.res = "expired" =>
                    lapsed(find'.first) \/ lapsed(links[slug])
              /\ find'.res = "notFound" => ~links[slug].present
      ]_vars

\* C30: a step of the redirect path, which answers a request or records
\* its click in the outbox, leaves every row of the link store as it is; a
\* link's counter changes only in the consumer's step that processes a
\* message of that slug, by one, together with the insert of the message's
\* event id into the registry.
C30_HotPathLeavesLinks ==
    [][ /\ (reqs' # reqs \/ Len(outbox') > Len(outbox)) => links' = links
        /\ \A s \in Slugs :
              links'[s].clicks # links[s].clicks =>
                  /\ consumer.pc = "process"
                  /\ consumer'.pc = "commit"
                  /\ CurMsg.slug = s
                  /\ links'[s].clicks = links[s].clicks + 1
                  /\ CurMsg.eventId \notin processed
                  /\ processed' = processed \cup {CurMsg.eventId}
                  /\ reqs' = reqs
                  /\ outbox' = outbox
      ]_vars

\* C30 witness: a redirect was answered and its click recorded while the
\* link's counter stood still; the counter went up once the consumer had
\* processed the click's event.
C30_Witness ==
    \E id \in processed :
        /\ outbox[id].req \in ReqIds
        /\ reqs[outbox[id].req].status \in {301, 302}
        /\ reqs[outbox[id].req].click = "ok"
        /\ links[outbox[id].slug].clicks = 1
        /\ Effect(id).clicks = 1

\* C31: a daily counter changes only when the consumer processes a message,
\* and the counter that goes up, by one, is the one of the event's slug and
\* of the day its occurred_at falls in, whatever the clock shows then.
C31_DayOfOccurrence ==
    [][ daily' # daily =>
          /\ consumer.pc = "process"
          /\ LET id == CurMsg.eventId
                 key == <<outbox[id].slug, outbox[id].occurredAt \div TicksPerDay>>
             IN  /\ DOMAIN daily' = DOMAIN daily \cup {key}
                 /\ \A k \in DOMAIN daily' :
                       daily'[k] = (IF k \in DOMAIN daily THEN daily[k] ELSE 0)
                                   + (IF k = key THEN 1 ELSE 0)
      ]_vars

\* C31 witness: a click of day 0 whose first publish failed was sent on day
\* 1 and counted for day 0, and day 1 has no counter.
C31_Witness ==
    \E id \in processed :
        /\ outbox[id].occurredAt \div TicksPerDay = 0
        /\ outbox[id].attempts >= 1
        /\ outbox[id].sentAt \div TicksPerDay = 1
        /\ now \div TicksPerDay = 1
        /\ <<outbox[id].slug, 0>> \in DOMAIN daily
        /\ daily[<<outbox[id].slug, 0>>] = 1
        /\ <<outbox[id].slug, 1>> \notin DOMAIN daily

\* C32: a worker that has exited on its shutdown signal leaves no row in
\* status processing under its name: every row it had claimed was marked
\* sent or scheduled for retry before main returned.
C32_GracefulShutdown ==
    loop.pc = "exited" =>
        \A id \in EventIds :
            ~(outbox[id].status = "processing" /\ outbox[id].owner = LoopWorker)

\* C33: the wait that follows a processBatch is the poll_interval tick when
\* ClaimPending returned no row and idle_wait when it returned at least one
\* row, whether or not a row of the batch was marked sent.
C33_WaitAfterBatch ==
    [][ (loop.pc \notin {"waitPoll", "waitIdle"} /\
         loop'.pc \in {"waitPoll", "waitIdle"} /\ ~loop.stop) =>
            (loop'.pc = "waitPoll" <=> loop.claimed = 0)
      ]_vars

\* C34: once Shutdown has returned nil, every event with a slug that was
\* handed to IncDaily before Shutdown is in the stored daily counters or in
\* the dropped counter: the two add up to the number of events given.
C34_StoredOrDropped ==
    (buffered.ret = "nil" /\ buffered.late = 0) =>
        SumCounts(daily) + buffered.dropped = buffered.given

\* C35: in every state an outbox row is processing exactly when it has both
\* an owner and a lease deadline, and sent exactly when it has sent_at, so
\* pending and sent rows carry neither owner nor lease; attempts is never
\* negative and moves only by +1, in MarkRetry; a claim and MarkSent leave
\* attempts and next_attempt_at as they were.
C35_RowShape ==
    /\ [](\A id \in EventIds :
            LET row == outbox[id]
            IN  /\ row.status \in {"pending", "processing", "sent"}
                /\ row.status = "processing" <=>
                      (row.owner # NoOwner /\ row.leaseIn # NoTime)
                /\ row.status # "processing" =>
                      (row.owner = NoOwner /\ row.leaseIn = NoTime)
                /\ row.status = "sent" <=> row.sentAt # NoTime
                /\ row.attempts >= 0)
    /\ [][ \A id \in EventIds :
             LET old == outbox[id]
                 new == outbox'[id]
             IN  /\ new.attempts # old.attempts =>
                       /\ new.attempts = old.attempts + 1
                       /\ old.status = "processing"
                       /\ new.status = "pending"
                 /\ (new.status = "processing" /\
                       (old.status # "processing" \/ new.owner # old.owner
                          \/ new.leaseIn > old.leaseIn)) =>
                       /\ new.attempts = old.attempts
                       /\ new.nextAttemptIn = old.nextAttemptIn
                 /\ (new.status = "sent" /\ old.status # "sent") =>
                       /\ new.attempts = old.attempts
                       /\ new.nextAttemptIn = old.nextAttemptIn
         ]_vars

C35_Witness ==
    \E id, other \in EventIds :
        /\ outbox[id].status = "sent"
        /\ outbox[id].attempts >= 1
        /\ outbox[id].owner = NoOwner
        /\ outbox[other].status = "processing"
        /\ outbox[other].owner # NoOwner

\* C36: for every link that has not been deleted, in every committed state
\* the link's total clicks, the sum of the slug's daily counters and the
\* number of registry rows of events applied to the slug are equal.
C36_CountersAgree ==
    \A s \in Slugs :
        s \notin deleted =>
            LET days == { k \in DOMAIN daily : k[1] = s }
                applied == { id \in processed :
                               outbox[id].slug = s /\ Effect(id).clicks > 0 }
            IN  /\ links[s].clicks = SumCounts([k \in days |-> daily[k]])
                /\ links[s].clicks = Cardinality(applied)

C36_Witness ==
    /\ ConsumerDrained
    /\ TopicSize = MaxLog
    /\ Cardinality(processed) = 2
    /\ \E s \in Slugs :
          /\ s \notin deleted
          /\ links[s].clicks = 2
          /\ \E d \in Days : <<s, d>> \in DOMAIN daily /\ daily[<<s, d>>] = 2

\* C37: at every write of an event to the broker the writing worker is the
\* event's processing_owner and the row's lease has not run out.
C37_PublishUnderLease ==
    [][ \A w \in WorkerIds :
            (workers[w].pc = "publish" /\ workers'[w].pc = "markSent") =>
                LET row == outbox[Head(workers[w].batch).id]
                IN  /\ row.status = "processing"
                    /\ row.owner = w
                    /\ row.leaseIn > 0
      ]_vars

\* C38: a Closed breaker becomes Open exactly at a call of OnFailure that
\* brings the calls of OnFailure since the last OnSuccess to maxFailures;
\* OnSuccess in Closed puts the failure count back to 0; while the breaker
\* is Open and openTimeout has not elapsed, CheckBeforeRequest rejects the
\* request and the reports of requests under way leave the breaker as it is.
C38_OpensAtThreshold ==
    [][ /\ cb.state = "closed" =>
              /\ cb'.state \in {"closed", "open"}
              /\ cb'.state = "open" <=>
                    /\ cb'.sinceSuccess = cb.sinceSuccess + 1
                    /\ cb'.sinceSuccess >= maxFailures
              /\ \A c \in Callers :
                    (calls'[c].ended = "ok" /\ calls'[c].reports = calls[c].reports + 1)
                        => cb'.state = "closed" /\ cb'.failures = 0
        /\ (cb.state = "open" /\ cb.elapsed <= openTimeout) =>
              /\ cb'.state = "open"
              /\ cb'.failures = cb.failures
              /\ cb'.elapsed >= cb.elapsed
              /\ \A c \in Callers :
                    (calls[c].pc = "idle" /\ calls'[c] # calls[c])
                        => calls'[c].pc = "idle" /\ calls'[c].ended = "blocked"
      ]_vars

C38_Witness ==
    /\ cb.state = "open"
    /\ cb.elapsed <= openTimeout
    /\ cb.failures = maxFailures
    /\ cb.sinceSuccess = maxFailures
    /\ \E c, d \in Callers :
          /\ calls[c].ended = "blocked"
          /\ calls[d].ended = "failed"

\* C39: while the request admitted by the step from Open to Half-Open has
\* not reported, no other caller's request is admitted.
C39_OneProbe ==
    [][ \A c \in Callers :
            (calls[c].pc = "idle" /\ calls'[c].pc = "attempt") =>
                ~ \E d \in Callers \ {c} :
                      calls[d].probe /\ calls[d].pc # "idle"
      ]_vars

\* C40: a request that CheckBeforeRequest admitted and that has returned
\* has reported to the breaker once, by OnSuccess or by OnFailure.
C40_OneReport ==
    \A c \in Callers :
        calls[c].ended \in {"ok", "failed", "ctx", "factory"} =>
            calls[c].reports = 1

====
